---- MODULE Spec2Model ----
(***************************************************************************)
(* CourtTracker: the realtime scraper's single-flight poll cycle           *)
(* (services/cronService.js) and the watchlist notification state machine  *)
(* (services/trackingService.js, services/fcmService.js).                  *)
(*                                                                         *)
(* Three specifications share the definitions below:                       *)
(*   Spec       the setInterval callback of startRealtimeScraper, one      *)
(*              action per await point, over two watchlist entries;       *)
(*   SpecDecide one watchlist entry followed over successive poll cycles,  *)
(*              every snapshot of the feed universe, every flag setting;  *)
(*   SpecRerun  processWatchlistItem run twice on one unchanged snapshot.  *)
(***************************************************************************)
EXTENDS Integers, Sequences, FiniteSets, TLC

\* ---------------------------------------------------------------- bounds

\* Largest number of court records in one scraped snapshot (SpecDecide, SpecRerun).
MaxRecords == 3
\* Largest number of court records in one scraped snapshot under Spec.
MaxRows == 1
\* Number of interval ticks that are followed under Spec.
MaxTicks == 3
\* Number of poll cycles that are followed under SpecDecide.
MaxCycles == 2
\* Number of times calculateQueuePosition is evaluated on one court under SpecResolve.
MaxEvaluations == 2
\* Number of records updateCaseStatistics goes through under SpecStats.
MaxObservations == 4
\* Number of requests to PUT /watchlist/:id that are served under SpecRoutes.
MaxExternalWrites == 1
\* Largest number of rows in a feed response under SpecNormalize.
MaxRawRows == 2

\* ------------------------------------------------------- values and types

\* JavaScript null / undefined for string-valued and object-valued fields.
NULL == "null"
\* JavaScript null for number-valued fields (queuePosition, timestamps).
NullNum == 0 - 1

NotificationStates == {"none", "early_warning", "approaching", "in_session", "completed"}
AlertTypes == {"early_warning", "approaching", "in_session", "completed"}

\* The decimal strings of the model and their parseInt value.
DigitStrings == {"0", "1", "2", "3", "03", "10000"}
ParseInt(s) == CASE s = "0" -> 0 [] s = "1" -> 1 [] s = "2" -> 2 [] s = "3" -> 3 [] s = "03" -> 3
                 [] s = "10000" -> 10000

\* process.env.NOTIFICATION_EARLY_WARNING_COUNT as deployed in the model.
\* The code's default is 5; the model runs the configurable value 2 so that
\* positions 1, 2 and 3 fall below, on and above the threshold.
earlyWarningThreshold == 2

\* process.env.SCRAPER_INTERVAL as deployed in the model, in minutes: the
\* clock counts ticks, and consecutive ticks are this far apart (the code's
\* default is 30 seconds).
TickMinutes == 3

\* One normalized court record, with the fields the tracking service reads.
Rec(court, case, status, qp) ==
  [courtNumber |-> court, caseNumber |-> case, caseStatus |-> status, queuePosition |-> qp]

\* Array.prototype.find returns undefined when nothing matches.
NoRecord == Rec(NULL, NULL, NULL, NullNum)

\* The records a scrape produces in the model: case A in session or in recess
\* with serial number 3, case A in recess without a serial number, and
\* another case in recess ahead of it with serial number 1.
CourtRecords ==
  { Rec("1", "A", "IN_SESSION", 3),
    Rec("1", "A", "RECESS", 3),
    Rec("1", "A", "RECESS", NullNum),
    Rec("1", "B", "RECESS", 1) }

SeqsUpTo(S, n) == UNION { [1..k -> S] : k \in 0..n }

\* The snapshots scrapeCourtData can return under Spec, and under SpecDecide
\* and SpecRerun.
Feeds == SeqsUpTo(CourtRecords, MaxRows)
Snapshots == SeqsUpTo(CourtRecords, MaxRecords)

\* A truthiness test that lets 0 pass.
TruthyNumNotNull(n) == n # NullNum

\* JavaScript truthiness of a number-or-null and of a string-or-null.
TruthyNum(n) == n # NullNum /\ n # 0
TruthyStr(s) == s # NULL /\ s # ""

\* Array.prototype.filter, find and findIndex over a sequence.
Filter(s, Keep(_)) == SelectSeq(s, Keep)

FindIndex(s, Test(_)) ==
  IF \E i \in 1..Len(s) : Test(s[i])
  THEN (CHOOSE i \in 1..Len(s) : Test(s[i]) /\ \A j \in 1..(i - 1) : ~Test(s[j])) - 1
  ELSE NullNum

Find(s, Test(_)) ==
  IF FindIndex(s, Test) = NullNum THEN NoRecord ELSE s[FindIndex(s, Test) + 1]

\* ------------------------------------------- trackingService.js: lookup

\* A case identifier is the text split at its colons, e.g. COURT:1:3 is
\* <<"COURT", "1", "3">>.  The pattern /^COURT:(\d+):(.+)$/i needs the
\* literal prefix, a decimal court number and a non-empty remainder.
IsCourtPrefix(tok) == tok \in {"COURT", "court", "Court"}

parseCaseIdentifier(caseIdentifier) ==
  IF /\ Len(caseIdentifier) >= 3
     /\ IsCourtPrefix(caseIdentifier[1])
     /\ caseIdentifier[2] \in DigitStrings
  THEN LET remainder == SubSeq(caseIdentifier, 3, Len(caseIdentifier))
       IN IF Len(remainder) = 1 /\ remainder[1] \in DigitStrings
          THEN [type |-> "position", courtNumber |-> caseIdentifier[2],
                position |-> ParseInt(remainder[1]), caseNumber |-> <<>>]
          ELSE [type |-> "caseNumber", courtNumber |-> caseIdentifier[2],
                position |-> NullNum, caseNumber |-> remainder]
  ELSE [type |-> "caseNumber", courtNumber |-> NULL,
        position |-> NullNum, caseNumber |-> caseIdentifier]

\* A record's case number as colon-separated text (records of the model
\* carry case numbers without colons).
CaseText(c) == <<c.caseNumber>>

\* A lookup that takes a scoped identifier by its case number or position
\* in any court.
findCaseInCourtsAnyCourt(courts, identifier) ==
  LET parsed == parseCaseIdentifier(identifier)
      ByPosition(c) == c.queuePosition = parsed.position
      ByCase(c) == CaseText(c) = parsed.caseNumber
  IN IF parsed.type = "position" THEN Find(courts, ByPosition)
     ELSE Find(courts, ByCase)

findCaseInCourts(courts, identifier) ==
  LET parsed == parseCaseIdentifier(identifier)
      ByPosition(c) == c.courtNumber = parsed.courtNumber /\ c.queuePosition = parsed.position
      ByCourtAndCase(c) == c.courtNumber = parsed.courtNumber /\ CaseText(c) = parsed.caseNumber
      ByCase(c) == CaseText(c) = parsed.caseNumber
  IN IF parsed.type = "position" THEN Find(courts, ByPosition)
     ELSE IF parsed.type = "caseNumber" /\ TruthyStr(parsed.courtNumber)
          THEN Find(courts, ByCourtAndCase)
          ELSE Find(courts, ByCase)

\* courtsByCourt[courtNumber] || []
SameCourt(courts, courtNumber) ==
  LET InCourt(c) == c.courtNumber = courtNumber IN Filter(courts, InCourt)

\* A ranking that counts every record with a smaller serial number, whatever
\* its status.
calculateQueuePositionCountsAll(caseNumber, courtWithCase, sameCourt) ==
  IF courtWithCase.queuePosition # NullNum
  THEN LET Ahead(c) == /\ c.queuePosition # NullNum
                       /\ c.queuePosition < courtWithCase.queuePosition
       IN Len(Filter(sameCourt, Ahead)) + 1
  ELSE LET IsCase(c) == c.caseNumber = caseNumber
           Pending(c) == c.caseStatus # "IN_SESSION" /\ c.caseStatus # "SITTING_OVER"
           pendingIndex == FindIndex(Filter(sameCourt, Pending), IsCase)
       IN IF FindIndex(sameCourt, IsCase) = NullNum THEN NullNum
          ELSE IF pendingIndex # NullNum THEN pendingIndex + 1 ELSE NullNum

\* A fallback that takes the index in the whole court, not among the pending
\* records.
calculateQueuePositionRawIndex(caseNumber, courtWithCase, sameCourt) ==
  IF courtWithCase.queuePosition # NullNum
  THEN LET Ahead(c) == /\ c.queuePosition # NullNum
                       /\ c.queuePosition < courtWithCase.queuePosition
                       /\ c.caseStatus # "IN_SESSION"
                       /\ c.caseStatus # "SITTING_OVER"
       IN Len(Filter(sameCourt, Ahead)) + 1
  ELSE LET IsCase(c) == c.caseNumber = caseNumber
           caseIndex == FindIndex(sameCourt, IsCase)
       IN IF caseIndex = NullNum THEN NullNum ELSE caseIndex + 1

calculateQueuePosition(caseNumber, courtWithCase, sameCourt) ==
  IF courtWithCase.queuePosition # NullNum
  THEN LET Ahead(c) == /\ c.queuePosition # NullNum
                       /\ c.queuePosition < courtWithCase.queuePosition
                       /\ c.caseStatus # "IN_SESSION"
                       /\ c.caseStatus # "SITTING_OVER"
       IN Len(Filter(sameCourt, Ahead)) + 1
  ELSE LET IsCase(c) == c.caseNumber = caseNumber
           Pending(c) == c.caseStatus # "IN_SESSION" /\ c.caseStatus # "SITTING_OVER"
           pendingIndex == FindIndex(Filter(sameCourt, Pending), IsCase)
       IN IF FindIndex(sameCourt, IsCase) = NullNum THEN NullNum
          ELSE IF pendingIndex # NullNum THEN pendingIndex + 1 ELSE NullNum

\* ------------------------------------------ fcmService.js: sendCaseAlert

\* How the awaited persistence calls of one decision end: all resolve, the
\* NotificationLog.create inside sendCaseAlert rejects, or watch.save() rejects.
Faults == {"none", "log", "save"}

\* The ends of one decision's awaited calls with the delivery included:
\* "delivery" is a sendNotification that caught the provider's error and
\* returned success false.
Outcomes == Faults \cup {"delivery"}

\* The running account of one processWatchlistItem call: the alerts handed to
\* sendCaseAlert, the audit-log entries created, the in-memory watch document,
\* the number of assignments to watch.lastNotificationSent, whether
\* watch.save() has stored the document, and whether the call has thrown.
StartOf(watch) ==
  [sent |-> <<>>, logged |-> <<>>, doc |-> watch, writes |-> 0, saved |-> FALSE, threw |-> FALSE]

\* sendCaseAlert: sendNotification never throws (it returns success or
\* failure), then the audit-log entry is created; a rejected create propagates.
sendCaseAlert(r, alertType, fault) ==
  LET handed == [r EXCEPT !.sent = Append(@, alertType)]
  IN IF fault = "log"
     THEN [handed EXCEPT !.threw = TRUE]
     ELSE [handed EXCEPT !.logged = Append(@, [type |-> alertType,
                                               success |-> fault # "delivery",
                                               error |-> IF fault = "delivery"
                                                         THEN "provider" ELSE NULL])]

\* ------------------------------- trackingService.js: processWatchlistItem

\* A decision that keeps the entry as it was when the delivery failed.
NotifyAndSaveRolledBack(r, alertType, t, fault) ==
  IF r.threw THEN r
  ELSE LET alerted == sendCaseAlert(r, alertType, fault)
       IN IF alerted.threw \/ fault = "delivery" THEN alerted
          ELSE LET assigned == [alerted EXCEPT !.doc.lastNotificationSent = alertType,
                                               !.doc.lastNotificationTime = t,
                                               !.writes = @ + 1]
               IN IF fault = "save"
                  THEN [assigned EXCEPT !.threw = TRUE]
                  ELSE [assigned EXCEPT !.saved = TRUE]

\* A decision that stores the new state before it hands the alert over.
NotifyAndSaveStoredFirst(r, alertType, t, fault) ==
  IF r.threw THEN r
  ELSE LET assigned == [r EXCEPT !.doc.lastNotificationSent = alertType,
                                 !.doc.lastNotificationTime = t,
                                 !.writes = @ + 1]
       IN IF fault = "save"
          THEN [assigned EXCEPT !.threw = TRUE]
          ELSE sendCaseAlert([assigned EXCEPT !.saved = TRUE], alertType, fault)

\* A decision that stores the new state and keeps the old time.
NotifyAndSaveWithoutTime(r, alertType, t, fault) ==
  IF r.threw THEN r
  ELSE LET alerted == sendCaseAlert(r, alertType, fault)
       IN IF alerted.threw THEN alerted
          ELSE LET assigned == [alerted EXCEPT !.doc.lastNotificationSent = alertType,
                                               !.writes = @ + 1]
               IN IF fault = "save"
                  THEN [assigned EXCEPT !.threw = TRUE]
                  ELSE [assigned EXCEPT !.saved = TRUE]

\* await sendCaseAlert(...); watch.lastNotificationSent = type;
\* watch.lastNotificationTime = new Date(); await watch.save();
NotifyAndSave(r, alertType, t, fault) ==
  IF r.threw THEN r
  ELSE LET alerted == sendCaseAlert(r, alertType, fault)
       IN IF alerted.threw THEN alerted
          ELSE LET assigned == [alerted EXCEPT !.doc.lastNotificationSent = alertType,
                                               !.doc.lastNotificationTime = t,
                                               !.writes = @ + 1]
               IN IF fault = "save"
                  THEN [assigned EXCEPT !.threw = TRUE]
                  ELSE [assigned EXCEPT !.saved = TRUE]

\* Device.findOne({ deviceId, isActive: true }) over the devices collection.
NoDevice == [isActive |-> FALSE, fcmToken |-> NULL]
DeviceFindOneActive(devs, deviceId) ==
  IF devs[deviceId] # NoDevice /\ devs[deviceId].isActive THEN devs[deviceId] ELSE NoDevice

\* The token test left out of the device test.
HasTokenAnyDevice(device) == device # NoDevice

\* device && device.fcmToken
HasToken(device) == device # NoDevice /\ TruthyStr(device.fcmToken)

\* The guards of the four alerts.
\* The approaching state left out of the completed guard.
completedDueSessionOnly(lastNotificationSent, device, notificationSettings) ==
  /\ lastNotificationSent = "in_session"
  /\ HasToken(device)
  /\ notificationSettings.completed

\* The completed flag left out of the completed guard.
completedDueFlagIgnored(lastNotificationSent, device, notificationSettings) ==
  /\ lastNotificationSent = "in_session" \/ lastNotificationSent = "approaching"
  /\ HasToken(device)

completedDue(lastNotificationSent, device, notificationSettings) ==
  /\ lastNotificationSent = "in_session" \/ lastNotificationSent = "approaching"
  /\ HasToken(device)
  /\ notificationSettings.completed

\* The state test written against the initial state only.
inSessionDueFromNone(lastNotificationSent, notificationSettings) ==
  notificationSettings.inSession /\ lastNotificationSent = "none"

inSessionDue(lastNotificationSent, notificationSettings) ==
  notificationSettings.inSession /\ lastNotificationSent # "in_session"

\* The lower bound of the early-warning window left out.
earlyWarningPositionNoFloor(position) == position <= earlyWarningThreshold

earlyWarningPosition(position) ==
  position <= earlyWarningThreshold /\ position > 1

\* The completed state left out of the early-warning guard.
earlyWarningDueFirstOnly(lastNotificationSent, notificationSettings) ==
  /\ notificationSettings.earlyWarning
  /\ lastNotificationSent = "none"

earlyWarningDue(lastNotificationSent, notificationSettings) ==
  /\ notificationSettings.earlyWarning
  /\ lastNotificationSent = "none" \/ lastNotificationSent = "completed"

\* The approaching test written as a lower bound.
approachingPositionAtLeast(position) == position >= 1

approachingPosition(position) == position = 1

\* The in_session exclusion left out.
approachingDueAfterSession(lastNotificationSent, notificationSettings) ==
  /\ notificationSettings.approaching
  /\ lastNotificationSent # "approaching"

\* The approaching exclusion left out.
approachingDueRepeated(lastNotificationSent, notificationSettings) ==
  /\ notificationSettings.approaching
  /\ lastNotificationSent # "in_session"

approachingDue(lastNotificationSent, notificationSettings) ==
  /\ notificationSettings.approaching
  /\ lastNotificationSent # "approaching"
  /\ lastNotificationSent # "in_session"

\* The position the pending branch computes for a found record.
PositionOf(courts, courtWithCase) ==
  calculateQueuePosition(courtWithCase.caseNumber, courtWithCase,
                         SameCourt(courts, courtWithCase.courtNumber))

processWatchlistItem(watch, courts, devs, t, fault) ==
  LET lastNotificationSent == watch.lastNotificationSent
      notificationSettings == watch.notificationSettings
      courtWithCase == findCaseInCourts(courts, watch.caseNumber)
      device == DeviceFindOneActive(devs, watch.deviceId)
      r0 == StartOf(watch)
  IN IF courtWithCase = NoRecord
     THEN IF completedDue(lastNotificationSent, device, notificationSettings)
          THEN NotifyAndSave(r0, "completed", t, fault)
          ELSE r0
     ELSE IF ~HasToken(device) THEN r0
     ELSE IF courtWithCase.caseStatus = "IN_SESSION"
          THEN IF inSessionDue(lastNotificationSent, notificationSettings)
               THEN NotifyAndSave(r0, "in_session", t, fault)
               ELSE r0
     ELSE IF TruthyNum(courtWithCase.queuePosition)
          THEN LET position == PositionOf(courts, courtWithCase)
                   r1 == IF /\ earlyWarningPosition(position)
                            /\ earlyWarningDue(lastNotificationSent, notificationSettings)
                         THEN NotifyAndSave(r0, "early_warning", t, fault)
                         ELSE r0
                   r2 == IF /\ approachingPosition(position)
                            /\ approachingDue(lastNotificationSent, notificationSettings)
                         THEN NotifyAndSave(r1, "approaching", t, fault)
                         ELSE r1
               IN IF position # NullNum THEN r2 ELSE r0
     ELSE r0

\* ------------------------------------------------------------------ state

VARIABLES
  now,               \* the clock: the number of interval ticks fired so far
  isScraperRunning,  \* cronService.js module flag
  lastScrapeTime,    \* cronService.js: time of the last completed cycle, or null
  scrapeCount,       \* cronService.js: number of cycles started
  pc,                \* per tick: where that invocation of the interval callback stands
  courtData,         \* per tick: the snapshot its scrapeCourtData call returned
  queue,             \* per tick: the watchlist documents its for-loop has yet to process
  watchlists,        \* the Watchlist collection
  devices,           \* the Device collection
  fetchedBy,         \* the ticks whose invocation called scrapeCourtData
  firedWhileRunning, \* the ticks that fired while another invocation was executing
  sent,              \* sendCaseAlert calls since the latest cycle started
  decided,           \* per watchlist entry: the account of its decision in that cycle
  errors,            \* entries whose processWatchlistItem threw in that cycle
  historyInserted,   \* CaseHistory documents inserted in that cycle
  statsUpdated,      \* case numbers whose CaseStatistics were written in that cycle
  broadcasts,        \* broadcastCourtUpdate calls in that cycle
  processed,         \* the entries handed to processWatchlistItem in that cycle, in order
  askedCourt,        \* the sameCourt argument of the calculateQueuePosition calls observed
  askedRecord,       \* their courtWithCase argument
  positions,         \* what the calls returned, in order
  caseStatistics,    \* the CaseStatistics collection followed under SpecStats, by case number
  observations,      \* the records updateCaseStatistics has gone through there, in order
  askedIdentifier,   \* the identifier of the findCaseInCourts calls observed on their own
  matched,           \* what those calls returned, in order
  rawFeed,           \* the rows of the feed response given to scrapeCourtData on its own
  scraped,           \* what scrapeCourtData made of them
  externalWrites,    \* the PUT /watchlist/:id requests served so far
  startWatchlists,   \* the Watchlist collection as it was when that cycle started, then as it read it
  present,           \* SpecDecide: the followed entry's case was found by its latest decision
  trail,             \* SpecDecide: the alerts of the followed entry since its case last
                     \* entered the feed, the alerts after it left included
  sinceCompleted,    \* SpecDecide: the alerts of the followed entry since its latest
                     \* completed alert
  rejected           \* SpecDecide: the decisions of the followed entry that threw so
                     \* far, each with its cycle and the alerts it had handed over

vars == <<now, isScraperRunning, lastScrapeTime, scrapeCount, pc, courtData, queue,
          watchlists, devices, fetchedBy, firedWhileRunning, sent, decided, errors,
          historyInserted, statsUpdated, broadcasts, processed, startWatchlists, present,
          trail, sinceCompleted, rejected, askedCourt, askedRecord, positions, caseStatistics, observations,
          askedIdentifier, matched, rawFeed, scraped, externalWrites>>

cronVars == <<isScraperRunning, lastScrapeTime, scrapeCount>>
dbVars == <<watchlists, devices>>
logVars == <<sent, decided, errors, historyInserted, statsUpdated, broadcasts, processed>>
trailVars == <<present, trail, sinceCompleted, rejected>>
resolveVars == <<askedCourt, askedRecord, positions>>
aggVars == <<caseStatistics, observations>>
lookupVars == <<askedIdentifier, matched>>
feedVars == <<rawFeed, scraped>>
sideVars == <<aggVars, lookupVars, feedVars, externalWrites>>

Ticks == 1..MaxTicks
WatchIds == {"w1", "w2"}
DeviceIds == {"d1", "d2"}

\* The positions of one invocation of the interval callback.
Live == {"scrape", "find", "items", "deciding", "history", "stats", "broadcast"}
Executing == { i \in Ticks : pc[i] \in Live }

Settings == [earlyWarning : BOOLEAN, approaching : BOOLEAN, inSession : BOOLEAN, completed : BOOLEAN]
\* The schema's default notificationSettings.
DefaultSettings == [earlyWarning |-> TRUE, approaching |-> TRUE, inSession |-> TRUE, completed |-> TRUE]

\* A Watchlist document as a restart of the server finds it: any notification
\* state an earlier run left behind; lastNotificationTime is set exactly when
\* a notification has been recorded.
Watch(id, deviceId, caseNumber, settings, active, lns) ==
  [id |-> id, deviceId |-> deviceId, caseNumber |-> caseNumber,
   notificationSettings |-> settings, isActive |-> active,
   lastNotificationSent |-> lns,
   lastNotificationTime |-> IF lns = "none" THEN NullNum ELSE 0]

ActiveDevice == [isActive |-> TRUE, fcmToken |-> "token"]
InactiveDevice == [isActive |-> FALSE, fcmToken |-> "token"]

NoDecision == [made |-> FALSE]
\* What one processWatchlistItem call saw and did.
Decision(watch, courts, r) ==
  LET courtWithCase == findCaseInCourts(courts, watch.caseNumber)
  IN [made |-> TRUE,
      before |-> watch.lastNotificationSent,
      courtWithCase |-> courtWithCase,
      position |-> IF courtWithCase = NoRecord THEN NullNum
                   ELSE PositionOf(courts, courtWithCase),
      sent |-> r.sent, logged |-> r.logged, writes |-> r.writes,
      saved |-> r.saved, threw |-> r.threw]

\* A read that returns every stored entry.
ActiveWatchlistsAll ==
  LET ids == <<"w1", "w2">> IN [k \in 1..Len(ids) |-> watchlists[ids[k]]]

\* Watchlist.find({ isActive: true }), in collection order.
ActiveWatchlists ==
  LET ids == <<"w1", "w2">>
      IsActive(id) == watchlists[id].isActive
      Doc(id) == watchlists[id]
      kept == Filter(ids, IsActive)
  IN [k \in 1..Len(kept) |-> Doc(kept[k])]

\* saveCaseHistory: one entry per record with a case number.
HistoryEntries(courts) ==
  LET HasCase(c) == TruthyStr(c.caseNumber)
      kept == Filter(courts, HasCase)
  IN [k \in 1..Len(kept) |-> [caseNumber |-> kept[k].caseNumber, courtNumber |-> kept[k].courtNumber]]

\* updateCaseStatistics: one write per record with a case number.
StatisticsWrites(courts) ==
  LET HasCase(c) == TruthyStr(c.caseNumber)
      kept == Filter(courts, HasCase)
  IN [k \in 1..Len(kept) |-> kept[k].caseNumber]

\* Per-cycle observations are cleared when a cycle starts.
ClearLogs ==
  /\ sent' = <<>>
  /\ decided' = [w \in WatchIds |-> NoDecision]
  /\ errors' = {}
  /\ historyInserted' = <<>>
  /\ statsUpdated' = <<>>
  /\ broadcasts' = 0
  /\ processed' = <<>>

\* ------------------------------------------ cronService.js: the interval

\* The guard left out: every tick passes.
SkipTickNever == FALSE

\* if (isScraperRunning) { ...; return; }
SkipTick == isScraperRunning

\* The finally block left out: the flag keeps the value the cycle gave it.
FlagAfterCycleKept(flag) == flag

\* finally { isScraperRunning = false; }
FlagAfterCycle(flag) == FALSE

\* The count incremented before the guard instead of after it.
TickSkipCounted ==
  /\ now < MaxTicks
  /\ SkipTick
  /\ now' = now + 1
  /\ scrapeCount' = scrapeCount + 1
  /\ pc' = [pc EXCEPT ![now + 1] = "skipped"]
  /\ firedWhileRunning' = IF Executing # {} THEN firedWhileRunning \cup {now + 1}
                          ELSE firedWhileRunning
  /\ UNCHANGED <<isScraperRunning, lastScrapeTime, courtData, queue, dbVars, fetchedBy,
                 logVars, startWatchlists, trailVars, resolveVars, sideVars>>

\* The interval fires while a cycle is running: the callback returns at once.
TickSkip ==
  /\ now < MaxTicks
  /\ SkipTick
  /\ now' = now + 1
  /\ pc' = [pc EXCEPT ![now + 1] = "skipped"]
  /\ firedWhileRunning' = IF Executing # {} THEN firedWhileRunning \cup {now + 1}
                          ELSE firedWhileRunning
  /\ UNCHANGED <<cronVars, courtData, queue, dbVars, fetchedBy, logVars, startWatchlists, trailVars, resolveVars, sideVars>>

\* The interval fires and the callback passes the guard: the flag is set, the
\* count incremented and scrapeCourtData called, all before the first await.
TickStart ==
  /\ now < MaxTicks
  /\ ~SkipTick
  /\ now' = now + 1
  /\ isScraperRunning' = TRUE
  /\ scrapeCount' = scrapeCount + 1
  /\ pc' = [pc EXCEPT ![now + 1] = "scrape"]
  /\ fetchedBy' = fetchedBy \cup {now + 1}
  /\ firedWhileRunning' = IF Executing # {} THEN firedWhileRunning \cup {now + 1}
                          ELSE firedWhileRunning
  /\ ClearLogs
  /\ startWatchlists' = watchlists
  /\ UNCHANGED <<lastScrapeTime, courtData, queue, dbVars, trailVars, resolveVars, sideVars>>

\* scrapeCourtData resolves with a snapshot.
ScrapeOk(i) ==
  /\ pc[i] = "scrape"
  /\ \E courts \in Feeds : courtData' = [courtData EXCEPT ![i] = courts]
  /\ pc' = [pc EXCEPT ![i] = "find"]
  /\ UNCHANGED <<now, cronVars, queue, dbVars, fetchedBy, firedWhileRunning, logVars,
                 startWatchlists, trailVars, resolveVars, sideVars>>

\* A failed cycle that stamps lastScrapeTime.
ScrapeFailStamped(i) ==
  /\ pc[i] = "scrape"
  /\ pc' = [pc EXCEPT ![i] = "failed"]
  /\ isScraperRunning' = FlagAfterCycle(isScraperRunning)
  /\ lastScrapeTime' = now
  /\ UNCHANGED <<now, scrapeCount, courtData, queue, dbVars,
                 fetchedBy, firedWhileRunning, logVars, startWatchlists, trailVars,
                 resolveVars, sideVars>>

\* scrapeCourtData rejects: the catch block logs, the finally block clears the flag.
ScrapeFail(i) ==
  /\ pc[i] = "scrape"
  /\ pc' = [pc EXCEPT ![i] = "failed"]
  /\ isScraperRunning' = FlagAfterCycle(isScraperRunning)
  /\ UNCHANGED <<now, lastScrapeTime, scrapeCount, courtData, queue, dbVars,
                 fetchedBy, firedWhileRunning, logVars, startWatchlists, trailVars, resolveVars, sideVars>>

\* processCaseUpdates: Watchlist.find({ isActive: true }); with no active
\* entry it returns at once, before history and statistics.
FindWatchlists(i) ==
  /\ pc[i] = "find"
  /\ queue' = [queue EXCEPT ![i] = ActiveWatchlists]
  /\ pc' = [pc EXCEPT ![i] = IF ActiveWatchlists = <<>> THEN "broadcast" ELSE "items"]
  /\ startWatchlists' = watchlists
  /\ UNCHANGED <<now, cronVars, courtData, dbVars, fetchedBy, firedWhileRunning, logVars,
                 trailVars, resolveVars, sideVars>>

\* A save that writes the whole document the cycle read.
ItemEffectsWholeDocument(i, fault) ==
  LET watch == Head(queue[i])
      r == processWatchlistItem(watch, courtData[i], devices, now, fault)
  IN /\ watchlists' = IF r.saved THEN [watchlists EXCEPT ![watch.id] = r.doc] ELSE watchlists
     /\ sent' = sent \o [k \in 1..Len(r.sent) |-> [watch |-> watch.id, type |-> r.sent[k]]]
     /\ decided' = [decided EXCEPT ![watch.id] = Decision(watch, courtData[i], r)]
     /\ errors' = IF r.threw THEN errors \cup {watch.id} ELSE errors
     /\ processed' = Append(processed, watch.id)
     /\ queue' = [queue EXCEPT ![i] = Tail(@)]

\* One pass of the for-loop: processWatchlistItem on the next document; a
\* throw is caught and logged.  watch.save() stores the modified paths only.
ItemEffects(i, fault) ==
  LET watch == Head(queue[i])
      r == processWatchlistItem(watch, courtData[i], devices, now, fault)
  IN /\ watchlists' =
          IF r.saved
          THEN [watchlists EXCEPT ![watch.id].lastNotificationSent = r.doc.lastNotificationSent,
                                  ![watch.id].lastNotificationTime = r.doc.lastNotificationTime]
          ELSE watchlists
     /\ sent' = sent \o [k \in 1..Len(r.sent) |-> [watch |-> watch.id, type |-> r.sent[k]]]
     /\ decided' = [decided EXCEPT ![watch.id] = Decision(watch, courtData[i], r)]
     /\ errors' = IF r.threw THEN errors \cup {watch.id} ELSE errors
     /\ processed' = Append(processed, watch.id)
     /\ queue' = [queue EXCEPT ![i] = Tail(@)]

\* The loop takes the next document and calls processWatchlistItem, which
\* runs to its first await.
ItemStart(i) ==
  /\ pc[i] = "items"
  /\ queue[i] # <<>>
  /\ pc' = [pc EXCEPT ![i] = "deciding"]
  /\ UNCHANGED <<now, cronVars, courtData, queue, dbVars, fetchedBy, firedWhileRunning, logVars,
                 startWatchlists, trailVars, resolveVars, sideVars>>

\* A loop that stops at the first entry whose decision threw.
ProcessItemAborting(i, fault) ==
  /\ pc[i] = "deciding"
  /\ queue[i] # <<>>
  /\ ItemEffects(i, fault)
  /\ pc' = [pc EXCEPT ![i] = IF Len(queue[i]) = 1 THEN "history"
                             ELSE IF errors' # {} THEN "broadcast" ELSE "items"]
  /\ UNCHANGED <<now, cronVars, courtData, devices, fetchedBy, firedWhileRunning,
                 historyInserted, statsUpdated, broadcasts, startWatchlists, trailVars, resolveVars, sideVars>>

\* The call returns or throws: its effects, then the next pass or the end of
\* the loop.
ProcessItem(i, fault) ==
  /\ pc[i] = "deciding"
  /\ queue[i] # <<>>
  /\ ItemEffects(i, fault)
  /\ pc' = [pc EXCEPT ![i] = IF Len(queue[i]) = 1 THEN "history" ELSE "items"]
  /\ UNCHANGED <<now, cronVars, courtData, devices, fetchedBy, firedWhileRunning,
                 historyInserted, statsUpdated, broadcasts, startWatchlists, trailVars, resolveVars, sideVars>>

SaveHistory(i) ==
  /\ pc[i] = "history"
  /\ historyInserted' = historyInserted \o HistoryEntries(courtData[i])
  /\ pc' = [pc EXCEPT ![i] = "stats"]
  /\ UNCHANGED <<now, cronVars, courtData, queue, dbVars, fetchedBy, firedWhileRunning,
                 sent, decided, errors, processed, statsUpdated, broadcasts, startWatchlists,
                 trailVars, resolveVars, sideVars>>

UpdateStatistics(i) ==
  /\ pc[i] = "stats"
  /\ statsUpdated' = statsUpdated \o StatisticsWrites(courtData[i])
  /\ pc' = [pc EXCEPT ![i] = "broadcast"]
  /\ UNCHANGED <<now, cronVars, courtData, queue, dbVars, fetchedBy, firedWhileRunning,
                 sent, decided, errors, processed, historyInserted, broadcasts,
                 startWatchlists, trailVars, resolveVars, sideVars>>

\* broadcastCourtUpdate(courtData); lastScrapeTime = new Date(); finally.
BroadcastAndFinish(i) ==
  /\ pc[i] = "broadcast"
  /\ broadcasts' = broadcasts + 1
  /\ lastScrapeTime' = now
  /\ isScraperRunning' = FlagAfterCycle(isScraperRunning)
  /\ pc' = [pc EXCEPT ![i] = "done"]
  /\ courtData' = [courtData EXCEPT ![i] = <<>>]
  /\ UNCHANGED <<now, scrapeCount, queue, dbVars, fetchedBy, firedWhileRunning,
                 sent, decided, errors, processed, historyInserted, statsUpdated, startWatchlists,
                 trailVars, resolveVars, sideVars>>

\* ------------------------------------------- part_000: the watchlist routes

\* notificationSettings with every flag off.
MutedSettings == [earlyWarning |-> FALSE, approaching |-> FALSE, inSession |-> FALSE, completed |-> FALSE]

\* The cycles that hold a copy of entry w read by Watchlist.find and not yet
\* decided.
HeldBy(w) ==
  { i \in Ticks : pc[i] \in {"items", "deciding"}
                  /\ \E k \in 1..Len(queue[i]) : queue[i][k].id = w }

\* PUT /watchlist/:id with isActive and notificationSettings in the body
\* (DELETE /watchlist/:id is the same with isActive false):
\* findByIdAndUpdate sets the fields given and no other.
PutWatchlist(w) ==
  /\ Len(externalWrites) < MaxExternalWrites
  /\ \E isActive \in BOOLEAN, notificationSettings \in {DefaultSettings, MutedSettings} :
       /\ watchlists' = [watchlists EXCEPT ![w].isActive = isActive,
                                           ![w].notificationSettings = notificationSettings]
       /\ watchlists' # watchlists
  /\ externalWrites' = Append(externalWrites, [id |-> w, held |-> HeldBy(w) # {}])
  /\ UNCHANGED <<now, cronVars, pc, courtData, queue, devices, fetchedBy, firedWhileRunning,
                 logVars, startWatchlists, trailVars, resolveVars, aggVars, lookupVars, feedVars>>

\* ------------------------------------------------------ specification Spec

InitCron ==
  /\ now = 0
  /\ isScraperRunning = FALSE
  /\ lastScrapeTime = NullNum
  /\ scrapeCount = 0
  /\ pc = [i \in Ticks |-> "unfired"]
  /\ courtData = [i \in Ticks |-> <<>>]
  /\ queue = [i \in Ticks |-> <<>>]
  /\ fetchedBy = {}
  /\ firedWhileRunning = {}
  /\ sent = <<>>
  /\ decided = [w \in WatchIds |-> NoDecision]
  /\ errors = {}
  /\ historyInserted = <<>>
  /\ statsUpdated = <<>>
  /\ broadcasts = 0
  /\ processed = <<>>
  /\ present = FALSE
  /\ trail = <<>>
  /\ sinceCompleted = <<>>
  /\ rejected = <<>>

\* No call of calculateQueuePosition is observed on its own.
NoQuestion ==
  /\ askedCourt = <<>>
  /\ askedRecord = NoRecord
  /\ positions = <<>>

\* Nothing is followed on its own: no statistics document, no lookup, no feed
\* response, no request to the watchlist routes.
StatCases == {"A", "B"}
NoStatistics == [totalAppearances |-> 0]
NoObservation ==
  /\ caseStatistics = [c \in StatCases |-> NoStatistics]
  /\ observations = <<>>
NoLookup ==
  /\ askedIdentifier = <<>>
  /\ matched = <<>>
NotScraped == [called |-> FALSE]
NoFeed ==
  /\ rawFeed = <<>>
  /\ scraped = NotScraped
NoExternalWrite == externalWrites = <<>>

\* Both entries watched or none; the first entry starts with no notification
\* recorded or with an approaching alert recorded by an earlier run.
Init ==
  /\ InitCron
  /\ \E active \in BOOLEAN, l1 \in {"none", "approaching"} :
       watchlists = [w \in WatchIds |->
          IF w = "w1" THEN Watch("w1", "d1", <<"A">>, DefaultSettings, active, l1)
          ELSE Watch("w2", "d2", <<"COURT", "1", "3">>, DefaultSettings, active, "none")]
  /\ devices = [d \in DeviceIds |-> ActiveDevice]
  /\ startWatchlists = watchlists
  /\ NoQuestion
  /\ NoObservation /\ NoLookup /\ NoFeed /\ NoExternalWrite

Next ==
  \/ TickSkip
  \/ TickStart
  \/ \E i \in Ticks : ScrapeOk(i)
  \/ \E i \in Ticks : ScrapeFail(i)
  \/ \E i \in Ticks : FindWatchlists(i)
  \/ \E i \in Ticks : ItemStart(i)
  \/ \E i \in Ticks, fault \in Outcomes : ProcessItem(i, fault)
  \/ \E i \in Ticks : SaveHistory(i)
  \/ \E i \in Ticks : UpdateStatistics(i)
  \/ \E i \in Ticks : BroadcastAndFinish(i)

Spec == Init /\ [][Next]_vars

\* -------------------------------------------------- specification SpecLive
\* The cycles of Spec with every awaited call allowed to reject, and with the
\* event loop resuming a callback whose awaited promise has settled.

\* Watchlist.find rejects: the catch of processCaseUpdates logs it and the
\* function returns, before the loop, history and statistics.
FindFail(i) ==
  /\ pc[i] = "find"
  /\ pc' = [pc EXCEPT ![i] = "broadcast"]
  /\ UNCHANGED <<now, cronVars, courtData, queue, dbVars, fetchedBy, firedWhileRunning, logVars,
                 startWatchlists, trailVars, resolveVars, sideVars>>

\* CaseHistory.insertMany rejects: the catch of saveCaseHistory logs it.
HistoryFail(i) ==
  /\ pc[i] = "history"
  /\ pc' = [pc EXCEPT ![i] = "stats"]
  /\ UNCHANGED <<now, cronVars, courtData, queue, dbVars, fetchedBy, firedWhileRunning, logVars,
                 startWatchlists, trailVars, resolveVars, sideVars>>

\* A call of updateCaseStatistics rejects: its catch logs it.
StatisticsFail(i) ==
  /\ pc[i] = "stats"
  /\ pc' = [pc EXCEPT ![i] = "broadcast"]
  /\ UNCHANGED <<now, cronVars, courtData, queue, dbVars, fetchedBy, firedWhileRunning, logVars,
                 startWatchlists, trailVars, resolveVars, sideVars>>

\* broadcastCourtUpdate throws: the catch of the callback logs it, then the
\* finally block; lastScrapeTime is not reached.
BroadcastFail(i) ==
  /\ pc[i] = "broadcast"
  /\ pc' = [pc EXCEPT ![i] = "failed"]
  /\ isScraperRunning' = FlagAfterCycle(isScraperRunning)
  /\ UNCHANGED <<now, lastScrapeTime, scrapeCount, courtData, queue, dbVars,
                 fetchedBy, firedWhileRunning, logVars, startWatchlists, trailVars, resolveVars, sideVars>>

\* The continuation of invocation i after the promise it awaits has settled,
\* either way.
Resumes(i) ==
  \/ ScrapeOk(i)
  \/ ScrapeFail(i)
  \/ FindWatchlists(i)
  \/ FindFail(i)
  \/ ItemStart(i)
  \/ \E fault \in Faults : ProcessItem(i, fault)
  \/ SaveHistory(i)
  \/ HistoryFail(i)
  \/ UpdateStatistics(i)
  \/ StatisticsFail(i)
  \/ BroadcastAndFinish(i)
  \/ BroadcastFail(i)

\* Both entries watched, neither notified yet.
InitLive ==
  /\ InitCron
  /\ watchlists = [w \in WatchIds |->
        IF w = "w1" THEN Watch("w1", "d1", <<"A">>, DefaultSettings, TRUE, "none")
        ELSE Watch("w2", "d2", <<"COURT", "1", "3">>, DefaultSettings, TRUE, "none")]
  /\ devices = [d \in DeviceIds |-> ActiveDevice]
  /\ startWatchlists = watchlists
  /\ NoQuestion
  /\ NoObservation /\ NoLookup /\ NoFeed /\ NoExternalWrite

NextLive ==
  \/ TickSkip
  \/ TickStart
  \/ \E i \in Ticks : Resumes(i)

\* Every awaited promise settles (the fetch returns or times out, the
\* database calls resolve or reject), and the event loop then runs the
\* continuation.
SpecLive == InitLive /\ [][NextLive]_vars /\ \A i \in Ticks : WF_vars(Resumes(i))

\* ------------------------------------------------ specification SpecRoutes
\* One cycle, step by step, with requests to the watchlist routes served
\* between its steps.

RouteStart == now < 1 /\ TickStart

NextRoutes ==
  \/ RouteStart
  \/ ScrapeOk(1)
  \/ FindWatchlists(1)
  \/ ItemStart(1)
  \/ \E fault \in Outcomes : ProcessItem(1, fault)
  \/ SaveHistory(1)
  \/ UpdateStatistics(1)
  \/ BroadcastAndFinish(1)
  \/ \E w \in WatchIds : PutWatchlist(w)

SpecRoutes == Init /\ [][NextRoutes]_vars

\* ------------------------------------------------ specification SpecDecide
\* One watched entry followed from cycle to cycle.  A cycle is taken in two
\* steps: the tick that passes the guard (TickStart), and the rest of the
\* callback up to the finally block (PollCycle): the scrape resolves with a
\* snapshot, Watchlist.find returns the followed entry, processWatchlistItem
\* decides it, history and statistics are written, the snapshot is broadcast.

\* The case identifier of the entry that is followed.
Identifiers == { <<"A">> }

DeviceValues == {NoDevice, ActiveDevice, InactiveDevice}

\* The ways the persistence calls of a decision can end: a call can only
\* reject if the decision makes it, that is, if an alert is due.
FaultsOf(watch, courts, t) ==
  IF processWatchlistItem(watch, courts, devices, t, "none").sent = <<>>
  THEN {"none"}
  ELSE Faults

\* The alerts of a sequence that follow its last completed alert.
RECURSIVE AfterCompleted(_)
AfterCompleted(alerts) ==
  IF alerts = <<>> THEN <<>>
  ELSE IF alerts[Len(alerts)] = "completed" THEN <<>>
  ELSE Append(AfterCompleted(SubSeq(alerts, 1, Len(alerts) - 1)), alerts[Len(alerts)])

\* The callback from the resolved scrape to the finally block.
Completes(i, courts, fault) ==
  LET watch == ActiveWatchlists[1]
      r == processWatchlistItem(watch, courts, devices, now, fault)
      found == findCaseInCourts(courts, watch.caseNumber) # NoRecord
  IN /\ watchlists' =
          IF r.saved
          THEN [watchlists EXCEPT ![watch.id].lastNotificationSent = r.doc.lastNotificationSent,
                                  ![watch.id].lastNotificationTime = r.doc.lastNotificationTime]
          ELSE watchlists
     /\ sent' = sent \o [k \in 1..Len(r.sent) |-> [watch |-> watch.id, type |-> r.sent[k]]]
     /\ decided' = [decided EXCEPT ![watch.id] = Decision(watch, courts, r)]
     /\ errors' = IF r.threw THEN errors \cup {watch.id} ELSE errors
     /\ processed' = Append(processed, watch.id)
     /\ historyInserted' = historyInserted \o HistoryEntries(courts)
     /\ statsUpdated' = statsUpdated \o StatisticsWrites(courts)
     /\ broadcasts' = broadcasts + 1
     /\ lastScrapeTime' = now
     /\ isScraperRunning' = FlagAfterCycle(isScraperRunning)
     /\ pc' = [pc EXCEPT ![i] = "done"]
     /\ present' = found
     /\ trail' = IF found /\ ~present THEN r.sent ELSE trail \o r.sent
     /\ sinceCompleted' = AfterCompleted(sinceCompleted \o r.sent)
     /\ rejected' = IF r.threw THEN Append(rejected, [cycle |-> i, sent |-> r.sent])
                    ELSE rejected
     /\ UNCHANGED <<now, scrapeCount, queue, devices, fetchedBy, firedWhileRunning,
                    startWatchlists, resolveVars, sideVars>>

PollCycle(i) ==
  /\ pc[i] = "scrape"
  /\ \E courts \in Snapshots :
       \E fault \in FaultsOf(ActiveWatchlists[1], courts, now) :
         Completes(i, courts, fault)
  /\ UNCHANGED courtData

InitDecide ==
  /\ InitCron
  /\ \E id \in Identifiers, settings \in Settings, lns \in NotificationStates :
       watchlists = [w \in WatchIds |->
          IF w = "w1" THEN Watch("w1", "d1", id, settings, TRUE, lns)
          ELSE Watch("w2", "d2", <<"B">>, DefaultSettings, FALSE, "none")]
  /\ \E d1 \in DeviceValues :
       devices = [d \in DeviceIds |-> IF d = "d1" THEN d1 ELSE ActiveDevice]
  /\ startWatchlists = watchlists
  /\ NoQuestion
  /\ NoObservation /\ NoLookup /\ NoFeed /\ NoExternalWrite

\* A tick that finds no cycle running.
PollStart == now < MaxCycles /\ TickStart

NextDecide ==
  \/ PollStart
  \/ \E i \in Ticks : PollCycle(i)

SpecDecide == InitDecide /\ [][NextDecide]_vars

\* ------------------------------------------------- specification SpecRerun
\* Two cycles on one snapshot: the feed returns to the second cycle what it
\* returned to the first.  The snapshot of the first cycle is kept in
\* courtData[1] for the second to receive.

RerunStart == now < 2 /\ TickStart

RerunFirst ==
  /\ pc[1] = "scrape"
  /\ \E courts \in Snapshots :
       /\ \E fault \in FaultsOf(ActiveWatchlists[1], courts, now) :
            Completes(1, courts, fault)
       /\ courtData' = [courtData EXCEPT ![1] = courts]

RerunSecond ==
  /\ pc[2] = "scrape"
  /\ \E fault \in FaultsOf(ActiveWatchlists[1], courtData[1], now) :
       Completes(2, courtData[1], fault)
  /\ UNCHANGED courtData

NextRerun ==
  \/ RerunStart
  \/ RerunFirst
  \/ RerunSecond

SpecRerun == InitDecide /\ [][NextRerun]_vars

\* ------------------------------------------------ specification SpecDevice
\* Two cycles on one snapshot for an owner whose device lookup gives no
\* delivery token at first; the device may register between the cycles.

\* A stored device document that is active and holds no token.
TokenlessDevice == [isActive |-> TRUE, fcmToken |-> NULL]

\* The document POST /device/register leaves: the token of the request (the
\* route refuses an empty one), isActive true, lastSeen the time of the request.
RegisteredDevice(t) == [isActive |-> TRUE, fcmToken |-> "token", lastSeen |-> t]

\* POST /device/register from a device the lookup does not give a token
\* for, served between two cycles (a request served while a cycle waits for
\* the feed is read by Device.findOne as one served before the tick).
RegisterDevice(deviceId) ==
  /\ Executing = {}
  /\ ~HasToken(DeviceFindOneActive(devices, deviceId))
  /\ devices' = [devices EXCEPT ![deviceId] = RegisteredDevice(now)]
  /\ UNCHANGED <<now, cronVars, pc, courtData, queue, watchlists, fetchedBy,
                 firedWhileRunning, logVars, startWatchlists, trailVars, resolveVars,
                 sideVars>>

InitDevice ==
  /\ InitCron
  /\ \E settings \in Settings, lns \in NotificationStates :
       watchlists = [w \in WatchIds |->
          IF w = "w1" THEN Watch("w1", "d1", <<"A">>, settings, TRUE, lns)
          ELSE Watch("w2", "d2", <<"B">>, DefaultSettings, FALSE, "none")]
  /\ \E d1 \in {NoDevice, InactiveDevice, TokenlessDevice} :
       devices = [d \in DeviceIds |-> IF d = "d1" THEN d1 ELSE ActiveDevice]
  /\ startWatchlists = watchlists
  /\ NoQuestion
  /\ NoObservation /\ NoLookup /\ NoFeed /\ NoExternalWrite

NextDevice ==
  \/ RerunStart
  \/ RerunFirst
  \/ RerunSecond
  \/ \E deviceId \in DeviceIds : RegisterDevice(deviceId)

SpecDevice == InitDevice /\ [][NextDevice]_vars

\* ---------------------------------------------- specification SpecUnranked
\* Cycles over feeds whose rows for the followed case carry the serial number
\* 0 (srNo "0": parseInt gives 0), no serial number, or the serial number 3.

UnrankedRecords ==
  { Rec("1", "A", "RECESS", 0),
    Rec("1", "A", "RECESS", NullNum),
    Rec("1", "A", "RECESS", 3),
    Rec("1", "B", "RECESS", 1) }

UnrankedFeeds == SeqsUpTo(UnrankedRecords, MaxRecords)

UnrankedCycle(i) ==
  /\ pc[i] = "scrape"
  /\ \E courts \in UnrankedFeeds :
       \E fault \in FaultsOf(ActiveWatchlists[1], courts, now) :
         Completes(i, courts, fault)
  /\ UNCHANGED courtData

NextUnranked ==
  \/ PollStart
  \/ \E i \in Ticks : UnrankedCycle(i)

SpecUnranked == InitDecide /\ [][NextUnranked]_vars

\* ------------------------------------------------ specification SpecStatus
\* One cycle over feeds that hold rows without case information: the scraper
\* gives such a row no caseStatus and no caseNumber, and a row marked COURT
\* SITTING OVER the status SITTING_OVER and no caseNumber; either may carry a
\* serial number.  The followed entry names its case in one of the three
\* identifier forms.

StatusRecords ==
  { Rec("1", NULL, NULL, 3),
    Rec("1", NULL, "SITTING_OVER", 3),
    Rec("1", "A", "RECESS", NullNum),
    Rec("1", "B", "RECESS", 1) }

StatusFeeds == SeqsUpTo(StatusRecords, MaxRecords)

\* A plain case number, COURT:1:3 and COURT:1:A.
StatusIdentifiers == { <<"A">>, <<"COURT", "1", "3">>, <<"COURT", "1", "A">> }

InitStatus ==
  /\ InitCron
  /\ \E id \in StatusIdentifiers, lns \in NotificationStates :
       watchlists = [w \in WatchIds |->
          IF w = "w1" THEN Watch("w1", "d1", id, DefaultSettings, TRUE, lns)
          ELSE Watch("w2", "d2", <<"B">>, DefaultSettings, FALSE, "none")]
  /\ \E d1 \in DeviceValues :
       devices = [d \in DeviceIds |-> IF d = "d1" THEN d1 ELSE ActiveDevice]
  /\ startWatchlists = watchlists
  /\ NoQuestion
  /\ NoObservation /\ NoLookup /\ NoFeed /\ NoExternalWrite

StatusCycle(i) ==
  /\ pc[i] = "scrape"
  /\ \E courts \in StatusFeeds :
       \E fault \in FaultsOf(ActiveWatchlists[1], courts, now) :
         Completes(i, courts, fault)
  /\ UNCHANGED courtData

NextStatus ==
  \/ PollStart
  \/ \E i \in Ticks : StatusCycle(i)

SpecStatus == InitStatus /\ [][NextStatus]_vars

\* ----------------------------------------------- specification SpecResolve
\* calculateQueuePosition on its own: the records of one court and the record
\* that is asked about are drawn at the start, and the function is evaluated
\* on them MaxEvaluations times.

\* Records of court 1: pending cases with serial numbers 10, 12 and 15, a case
\* in session, a bench that has risen (no case number), and pending and
\* in-session cases without a serial number.
ResolveRecords ==
  { Rec("1", "A", "RECESS", 10), Rec("1", "B", "RECESS", 12), Rec("1", "C", "RECESS", 15),
    Rec("1", "A", "IN_SESSION", 10), Rec("1", NULL, "SITTING_OVER", 12),
    Rec("1", "A", "RECESS", NullNum), Rec("1", "B", "RECESS", NullNum),
    Rec("1", "B", "IN_SESSION", NullNum) }

ResolveCourts == SeqsUpTo(ResolveRecords, MaxRecords)

InitResolve ==
  /\ InitCron
  /\ watchlists = [w \in WatchIds |->
        IF w = "w1" THEN Watch("w1", "d1", <<"A">>, DefaultSettings, FALSE, "none")
        ELSE Watch("w2", "d2", <<"B">>, DefaultSettings, FALSE, "none")]
  /\ devices = [d \in DeviceIds |-> ActiveDevice]
  /\ startWatchlists = watchlists
  /\ askedCourt \in ResolveCourts
  /\ askedRecord \in ResolveRecords
  /\ positions = <<>>
  /\ NoObservation /\ NoLookup /\ NoFeed /\ NoExternalWrite

\* const position = calculateQueuePosition(courtWithCase.caseNumber,
\*                                         courtWithCase, sameCourt);
Resolve ==
  /\ Len(positions) < MaxEvaluations
  /\ positions' = Append(positions,
        calculateQueuePosition(askedRecord.caseNumber, askedRecord, askedCourt))
  /\ UNCHANGED <<now, cronVars, pc, courtData, queue, dbVars, fetchedBy, firedWhileRunning,
                 logVars, startWatchlists, trailVars, askedCourt, askedRecord, sideVars>>

NextResolve == Resolve

SpecResolve == InitResolve /\ [][NextResolve]_vars

\* --------------------------------------------- specification SpecNormalize
\* scrapeCourtData on its own, from the parsed feed response to its result.
\* A text is the sequence of its pieces: " " is a run of white space, the
\* other pieces are words without white space.

NoText == [null |-> TRUE, text |-> <<>>]
Text(t) == [null |-> FALSE, text |-> t]

RECURSIVE CollapseSpace(_)
CollapseSpace(t) ==
  IF Len(t) < 2 THEN t
  ELSE IF t[1] = " " /\ t[2] = " " THEN CollapseSpace(Tail(t))
       ELSE <<t[1]>> \o CollapseSpace(Tail(t))

RECURSIVE TrimStart(_)
TrimStart(t) == IF t # <<>> /\ t[1] = " " THEN TrimStart(Tail(t)) ELSE t

RECURSIVE TrimEnd(_)
TrimEnd(t) == IF t # <<>> /\ t[Len(t)] = " " THEN TrimEnd(SubSeq(t, 1, Len(t) - 1)) ELSE t

\* String.prototype.trim
Trim(t) == TrimEnd(TrimStart(t))

\* text ? text.replace(/\s+/g, ' ').trim() : ''
cleanText(t) == Trim(CollapseSpace(t))

\* val && val !== '-' && val.trim() !== ''
isValidValue(val) == val # <<>> /\ val # <<"-">> /\ Trim(val) # <<>>

Includes(t, piece) == \E k \in 1..Len(t) : t[k] = piece

\* String.prototype.replace with a string pattern: the first occurrence.
RECURSIVE RemoveFirst(_, _)
RemoveFirst(t, piece) ==
  IF t = <<>> THEN <<>>
  ELSE IF Head(t) = piece THEN Tail(t)
       ELSE <<Head(t)>> \o RemoveFirst(Tail(t), piece)

\* A classification that keeps the text of a risen bench as its case number.
classifyKeepingSittingOver(caseFooterText) ==
  IF caseFooterText = <<>> THEN [caseStatus |-> NULL, caseNumber |-> NoText]
  ELSE IF Includes(caseFooterText, "COURT SITTING OVER")
  THEN [caseStatus |-> "SITTING_OVER", caseNumber |-> Text(caseFooterText)]
  ELSE IF Includes(caseFooterText, "(RECESS)")
  THEN [caseStatus |-> "RECESS",
        caseNumber |-> Text(Trim(RemoveFirst(caseFooterText, "(RECESS)")))]
  ELSE IF isValidValue(caseFooterText)
  THEN [caseStatus |-> "IN_SESSION", caseNumber |-> Text(caseFooterText)]
  ELSE [caseStatus |-> NULL, caseNumber |-> NoText]

\* A classification that looks for the recess marker first.
classifyRecessFirst(caseFooterText) ==
  IF caseFooterText = <<>> THEN [caseStatus |-> NULL, caseNumber |-> NoText]
  ELSE IF Includes(caseFooterText, "(RECESS)")
  THEN [caseStatus |-> "RECESS",
        caseNumber |-> Text(Trim(RemoveFirst(caseFooterText, "(RECESS)")))]
  ELSE IF Includes(caseFooterText, "COURT SITTING OVER")
  THEN [caseStatus |-> "SITTING_OVER", caseNumber |-> NoText]
  ELSE IF isValidValue(caseFooterText)
  THEN [caseStatus |-> "IN_SESSION", caseNumber |-> Text(caseFooterText)]
  ELSE [caseStatus |-> NULL, caseNumber |-> NoText]

\* The case status and case number read from the cleaned caseinfo text.
classify(caseFooterText) ==
  IF caseFooterText = <<>> THEN [caseStatus |-> NULL, caseNumber |-> NoText]
  ELSE IF Includes(caseFooterText, "COURT SITTING OVER")
  THEN [caseStatus |-> "SITTING_OVER", caseNumber |-> NoText]
  ELSE IF Includes(caseFooterText, "(RECESS)")
  THEN [caseStatus |-> "RECESS",
        caseNumber |-> Text(Trim(RemoveFirst(caseFooterText, "(RECESS)")))]
  ELSE IF isValidValue(caseFooterText)
  THEN [caseStatus |-> "IN_SESSION", caseNumber |-> Text(caseFooterText)]
  ELSE [caseStatus |-> NULL, caseNumber |-> NoText]

\* srNo && srNo !== '-' : the first run of digits of srNo, or null.
queuePositionOf(srNo) == IF srNo \in DigitStrings THEN ParseInt(srNo) ELSE NullNum

\* The court number the page shows on the card of a court code.
courtNumberOf(courtCode) ==
  CASE courtCode = "c1" -> "2" [] courtCode = "c2" -> "1" [] courtCode = "c0" -> "0"
    [] courtCode = "c3" -> "10000" [] courtCode = "c4" -> "X"

\* A row null in the response, and a row with its fields.
NullRow == [isNull |-> TRUE]
Row(courtcode, gsrno, caseinfo) ==
  [isNull |-> FALSE, courtcode |-> courtcode, gsrno |-> gsrno, caseinfo |-> caseinfo]

CaseInfos ==
  { <<>>, <<"-">>, <<" ">>, <<"A">>, <<" ", "A", " ">>, <<"A", " ", "(RECESS)">>,
    <<"(RECESS)">>, <<"COURT SITTING OVER">>, <<"A", "COURT SITTING OVER">>,
    <<"COURT SITTING OVER", " ", "(RECESS)">>, <<"(RECESS)", " ", "A">> }

RawRows ==
  {NullRow} \cup { Row(cc, sr, info) : cc \in {"", "c1", "c2"}, sr \in {"-", "3"},
                                       info \in CaseInfos }
            \cup { Row(cc, "3", <<"A">>) : cc \in {"c0", "c3", "c4"} }

RawFeeds == SeqsUpTo(RawRows, MaxRawRows)

\* courts.push({...}) for one row with a court code.
normalizeRow(row) ==
  LET read == classify(cleanText(row.caseinfo))
  IN [id |-> row.courtcode, courtNumber |-> courtNumberOf(row.courtcode),
      queuePosition |-> queuePositionOf(row.gsrno),
      caseNumber |-> read.caseNumber, caseStatus |-> read.caseStatus]

\* courts.sort by parseInt(courtNumberShort) || 9999: a stable sort.
SortKey(c) == IF c.courtNumber \in DigitStrings /\ ParseInt(c.courtNumber) # 0
              THEN ParseInt(c.courtNumber) ELSE 9999

RECURSIVE InsertSorted(_, _)
InsertSorted(sorted, c) ==
  IF sorted = <<>> THEN <<c>>
  ELSE IF SortKey(Head(sorted)) <= SortKey(c)
       THEN <<Head(sorted)>> \o InsertSorted(Tail(sorted), c)
       ELSE <<c>> \o sorted

RECURSIVE SortCourts(_)
SortCourts(courts) ==
  IF courts = <<>> THEN <<>>
  ELSE InsertSorted(SortCourts(SubSeq(courts, 1, Len(courts) - 1)), courts[Len(courts)])

\* The loop over the rows: row.courtcode of a null row throws a TypeError,
\* which the catch block logs and throws again; a row without a court code
\* is passed over.
RECURSIVE normalizeRows(_)
normalizeRows(rows) ==
  IF rows = <<>> THEN <<>>
  ELSE IF Head(rows).courtcode = "" THEN normalizeRows(Tail(rows))
       ELSE <<normalizeRow(Head(rows))>> \o normalizeRows(Tail(rows))

scrapeCourtData(rows) ==
  IF \E k \in 1..Len(rows) : rows[k].isNull
  THEN [called |-> TRUE, threw |-> TRUE, courts |-> <<>>]
  ELSE [called |-> TRUE, threw |-> FALSE, courts |-> SortCourts(normalizeRows(rows))]

InitNormalize ==
  /\ InitCron
  /\ watchlists = [w \in WatchIds |->
        IF w = "w1" THEN Watch("w1", "d1", <<"A">>, DefaultSettings, FALSE, "none")
        ELSE Watch("w2", "d2", <<"B">>, DefaultSettings, FALSE, "none")]
  /\ devices = [d \in DeviceIds |-> ActiveDevice]
  /\ startWatchlists = watchlists
  /\ NoQuestion
  /\ NoObservation /\ NoLookup /\ NoExternalWrite
  /\ rawFeed \in RawFeeds
  /\ scraped = NotScraped

Normalize ==
  /\ ~scraped.called
  /\ scraped' = scrapeCourtData(rawFeed)
  /\ UNCHANGED <<now, cronVars, pc, courtData, queue, dbVars, fetchedBy, firedWhileRunning,
                 logVars, startWatchlists, trailVars, resolveVars, aggVars, lookupVars,
                 rawFeed, externalWrites>>

NextNormalize == Normalize

SpecNormalize == InitNormalize /\ [][NextNormalize]_vars

\* ------------------------------------------------ specification SpecLookup
\* findCaseInCourts on its own: a snapshot and an identifier are drawn at
\* the start, and the function is evaluated on them MaxEvaluations times.

\* Records of courts 1 and 2: case A in both courts with serial number 3,
\* case B in both courts, a bench of court 1 that has risen.
LookupRecords ==
  { Rec("1", "A", "IN_SESSION", 3), Rec("2", "A", "RECESS", 3), Rec("2", "B", "RECESS", 1),
    Rec("1", "B", "RECESS", NullNum), Rec("1", NULL, "SITTING_OVER", 1) }

LookupCourts == SeqsUpTo(LookupRecords, MaxRecords)

\* A, B, COURT:1:A, COURT:2:A, court:2:B, COURT:1:3, COURT:2:03, COURT:2:1,
\* COURT:x:A.
LookupIdentifiers ==
  { <<"A">>, <<"B">>, <<"COURT", "1", "A">>, <<"COURT", "2", "A">>, <<"court", "2", "B">>,
    <<"COURT", "1", "3">>, <<"COURT", "2", "03">>, <<"COURT", "2", "1">>,
    <<"COURT", "x", "A">> }

InitLookup ==
  /\ InitCron
  /\ watchlists = [w \in WatchIds |->
        IF w = "w1" THEN Watch("w1", "d1", <<"A">>, DefaultSettings, FALSE, "none")
        ELSE Watch("w2", "d2", <<"B">>, DefaultSettings, FALSE, "none")]
  /\ devices = [d \in DeviceIds |-> ActiveDevice]
  /\ startWatchlists = watchlists
  /\ askedCourt \in LookupCourts
  /\ askedRecord = NoRecord
  /\ positions = <<>>
  /\ askedIdentifier \in LookupIdentifiers
  /\ matched = <<>>
  /\ NoObservation /\ NoFeed /\ NoExternalWrite

\* const courtWithCase = findCaseInCourts(courts, caseNumber);
Lookup ==
  /\ Len(matched) < MaxEvaluations
  /\ matched' = Append(matched, findCaseInCourts(askedCourt, askedIdentifier))
  /\ UNCHANGED <<now, cronVars, pc, courtData, queue, dbVars, fetchedBy, firedWhileRunning,
                 logVars, startWatchlists, trailVars, resolveVars, aggVars, askedIdentifier,
                 feedVars, externalWrites>>

NextLookup == Lookup

SpecLookup == InitLookup /\ [][NextLookup]_vars

\* ------------------------------------------------- specification SpecStats
\* updateCaseStatistics on its own: the loop goes through up to
\* MaxObservations records, one per step, against two stored watchlist
\* entries that do not change meanwhile.

\* statusHistory is cut to its last 100 entries in the code; the model keeps 2.
statusHistoryLimit == 2

StatRec(court, judge, case, status, qp) ==
  [courtNumber |-> court, judgeName |-> judge, caseNumber |-> case,
   caseStatus |-> status, queuePosition |-> qp]

StatRecords ==
  { StatRec("1", "J1", "A", "IN_SESSION", 1), StatRec("2", "J2", "A", "RECESS", 2),
    StatRec("1", "J2", "A", "RECESS", NullNum), StatRec("1", "J1", "B", "RECESS", 3),
    StatRec("1", "J1", NULL, "SITTING_OVER", NullNum) }

StatIdentifiers == { <<"A">>, <<"COURT", "1", "A">>, <<"B">> }

\* array.includes(x) || array.push(x)
PushIfAbsent(arr, x) ==
  IF \E k \in 1..Len(arr) : arr[k] = x THEN arr ELSE Append(arr, x)

StatusEntry(court) ==
  [status |-> court.caseStatus, courtNumber |-> court.courtNumber,
   queuePosition |-> court.queuePosition]

\* A cut that keeps the oldest entries.
trimStatusHistoryOldest(statusHistory) ==
  IF Len(statusHistory) > statusHistoryLimit
  THEN SubSeq(statusHistory, 1, statusHistoryLimit)
  ELSE statusHistory

\* if (stats.statusHistory.length > 100) stats.statusHistory = stats.statusHistory.slice(-100)
trimStatusHistory(statusHistory) ==
  IF Len(statusHistory) > statusHistoryLimit
  THEN SubSeq(statusHistory, Len(statusHistory) - statusHistoryLimit + 1, Len(statusHistory))
  ELSE statusHistory

\* Watchlist.countDocuments({ caseNumber: court.caseNumber, isActive: true })
countDocuments(lists, court) ==
  Cardinality({ w \in WatchIds : lists[w].caseNumber = CaseText(court) /\ lists[w].isActive })

\* One pass of the loop of updateCaseStatistics for a record with a case
\* number: the stored document updated, or a new one created.
statisticsAfter(stats, court, watchCount) ==
  IF stats # NoStatistics
  THEN [totalAppearances |-> stats.totalAppearances + 1,
        courts |-> PushIfAbsent(stats.courts, court.courtNumber),
        judges |-> PushIfAbsent(stats.judges, court.judgeName),
        statusHistory |-> trimStatusHistory(Append(stats.statusHistory, StatusEntry(court))),
        watchCount |-> watchCount]
  ELSE [totalAppearances |-> 1,
        courts |-> <<court.courtNumber>>,
        judges |-> <<court.judgeName>>,
        statusHistory |-> <<StatusEntry(court)>>,
        watchCount |-> watchCount]

InitStats ==
  /\ InitCron
  /\ \E id1 \in StatIdentifiers, id2 \in StatIdentifiers, a1 \in BOOLEAN, a2 \in BOOLEAN :
       watchlists = [w \in WatchIds |->
          IF w = "w1" THEN Watch("w1", "d1", id1, DefaultSettings, a1, "none")
          ELSE Watch("w2", "d2", id2, DefaultSettings, a2, "none")]
  /\ devices = [d \in DeviceIds |-> ActiveDevice]
  /\ startWatchlists = watchlists
  /\ NoQuestion
  /\ NoObservation /\ NoLookup /\ NoFeed /\ NoExternalWrite

\* for (const court of courts) { if (!court.caseNumber) continue; ... }
ObserveRecord ==
  /\ Len(observations) < MaxObservations
  /\ \E court \in StatRecords :
       /\ observations' = Append(observations, court)
       /\ caseStatistics' =
            IF TruthyStr(court.caseNumber)
            THEN [caseStatistics EXCEPT ![court.caseNumber] =
                     statisticsAfter(@, court, countDocuments(watchlists, court))]
            ELSE caseStatistics
  /\ UNCHANGED <<now, cronVars, pc, courtData, queue, dbVars, fetchedBy, firedWhileRunning,
                 logVars, startWatchlists, trailVars, resolveVars, lookupVars, feedVars,
                 externalWrites>>

NextStats == ObserveRecord

SpecStats == InitStats /\ [][NextStats]_vars

\* ------------------------------------------------------------ the scheduler

NothingObserved ==
  /\ sent = <<>>
  /\ decided = [w \in WatchIds |-> NoDecision]
  /\ errors = {}
  /\ historyInserted = <<>>
  /\ statsUpdated = <<>>
  /\ broadcasts = 0
  /\ processed = <<>>

\* The latest invocation that passed the guard.
LatestCycle(i) == i \in fetchedBy /\ \A j \in fetchedBy : j <= i

\* C4: at most one scrape cycle executes at any time, and a tick that fires
\* while a cycle is executing fetches nothing and starts no cycle.
C4_SingleFlight ==
  /\ Cardinality(Executing) <= 1
  /\ scrapeCount = Cardinality(fetchedBy)
  /\ \A i \in firedWhileRunning :
        /\ i \notin fetchedBy
        /\ pc[i] = "skipped"
        /\ courtData[i] = <<>>

\* A tick fired while an earlier cycle is still processing its entries.
C4_Witness ==
  \E i \in firedWhileRunning, j \in Ticks :
    j < i /\ pc[j] = "items" /\ pc[i] = "skipped"

\* C5: a tick that fires while the flag is set is dropped: it changes neither
\* scrapeCount nor lastScrapeTime, the status reports isRunning at that
\* instant, it starts nothing then or later, and a cycle starts only at the
\* step of a tick.
C5_SkippedTickDropped ==
  [][ /\ (now' # now /\ isScraperRunning) =>
            /\ scrapeCount' = scrapeCount
            /\ lastScrapeTime' = lastScrapeTime
            /\ isScraperRunning'
            /\ pc'[now'] = "skipped"
            /\ Executing' = Executing
            /\ fetchedBy' = fetchedBy
      /\ \A i \in Ticks : pc[i] = "skipped" => pc'[i] = "skipped"
      /\ (Executing' \ Executing # {}) =>
            (now' = now + 1 /\ Executing' \ Executing = {now'})
    ]_vars

\* A tick was skipped, the cycle it met has completed, and nothing runs.
C5_Witness ==
  \E i \in Ticks, j \in Ticks :
    /\ j < i
    /\ pc[i] = "skipped"
    /\ pc[j] = "done"
    /\ Executing = {}
    /\ ~isScraperRunning
    /\ scrapeCount = 1

\* C6: when the fetch of the latest cycle has failed, that cycle has changed
\* no watchlist entry, emitted no alert, written no history or statistics and
\* broadcast nothing, and the flag is cleared, so that the next tick starts a
\* cycle.
C6_FetchFailureAbortsCycle ==
  \A i \in Ticks :
    (pc[i] = "failed" /\ LatestCycle(i)) =>
      /\ watchlists = startWatchlists
      /\ NothingObserved
      /\ ~isScraperRunning
      /\ (now < MaxTicks => ENABLED TickStart)

\* A cycle whose fetch failed after an earlier cycle had alerted, and the tick
\* after the failure has started the next cycle.
C6_Witness ==
  \E i \in Ticks, j \in Ticks :
    /\ i < j
    /\ pc[i] = "failed"
    /\ pc[j] = "scrape"
    /\ \E w \in WatchIds : watchlists[w].lastNotificationSent = "in_session"

\* ------------------------------------------------------------- the decision

\* The entry SpecDecide follows, its latest decision and its owner's device.
Followed == watchlists["w1"]
Outcome == decided["w1"]
OwnerDevice == DeviceFindOneActive(devices, Followed.deviceId)

Alerts(w, type) == { k \in 1..Len(sent) : sent[k].watch = w /\ sent[k].type = type }
AlertsOf(w) == { k \in 1..Len(sent) : sent[k].watch = w }
Alerted(type) == Outcome.made /\ Alerts("w1", type) # {}

\* The decision stored the entry with lastNotificationSent = type.
StateSetTo(type) ==
  /\ Outcome.made
  /\ Outcome.saved
  /\ Followed.lastNotificationSent = type
  /\ Followed.lastNotificationTime = now

StateUnchanged == watchlists = startWatchlists

\* The latest decision found the case with a status other than IN_SESSION and
\* SITTING_OVER, and the position resolver gives it a position.
FoundPending ==
  /\ Outcome.made
  /\ Outcome.courtWithCase # NoRecord
  /\ Outcome.courtWithCase.caseStatus \notin {"IN_SESSION", "SITTING_OVER"}
  /\ Outcome.position # NullNum

FoundInSession ==
  /\ Outcome.made
  /\ Outcome.courtWithCase # NoRecord
  /\ Outcome.courtWithCase.caseStatus = "IN_SESSION"

\* C1: in one cycle every watchlist entry gets at most one alert and at most
\* one assignment of lastNotificationSent.
C1_OneAlertPerCycle ==
  \A w \in WatchIds :
    /\ Cardinality(AlertsOf(w)) <= 1
    /\ decided[w].made => (Len(decided[w].sent) <= 1 /\ decided[w].writes <= 1)

\* A cycle that alerted once and assigned once, from a state and position
\* where both position checks are armed.
C1_Witness ==
  /\ FoundPending
  /\ Outcome.position = 1
  /\ Outcome.before = "none"
  /\ Followed.notificationSettings = DefaultSettings
  /\ Cardinality(AlertsOf("w1")) = 1
  /\ Outcome.writes = 1

TransitionTable ==
  { <<"none", "early_warning">>, <<"none", "approaching">>, <<"none", "in_session">>,
    <<"early_warning", "approaching">>, <<"early_warning", "in_session">>,
    <<"approaching", "in_session">>, <<"approaching", "completed">>,
    <<"in_session", "in_session">>, <<"in_session", "completed">>,
    <<"completed", "early_warning">>, <<"completed", "approaching">>,
    <<"completed", "in_session">> }

\* C3: lastNotificationSent is always one of the five states, a decision that
\* stores the entry makes a transition of the table, and a decision that does
\* not store it leaves the state as it was.
C3_TransitionTable ==
  \A w \in WatchIds :
    /\ watchlists[w].lastNotificationSent \in NotificationStates
    /\ decided[w].made =>
          IF decided[w].saved
          THEN <<decided[w].before, watchlists[w].lastNotificationSent>> \in TransitionTable
          ELSE watchlists[w].lastNotificationSent = decided[w].before

\* A completed entry re-armed by a new appearance in first position.
C3_Witness ==
  /\ Outcome.made
  /\ Outcome.saved
  /\ Outcome.before = "completed"
  /\ Followed.lastNotificationSent = "approaching"

\* The decision's persistence calls all resolved.
Persisted == ~Outcome.threw

\* The record the decision found carries a non-zero queuePosition.
CarriesPosition == TruthyNum(Outcome.courtWithCase.queuePosition)

earlyWarningCase ==
  /\ 1 < Outcome.position
  /\ Outcome.position <= earlyWarningThreshold
  /\ Followed.notificationSettings.earlyWarning
  /\ Outcome.before \in {"none", "completed"}

approachingCase ==
  /\ Outcome.position = 1
  /\ Followed.notificationSettings.approaching
  /\ Outcome.before \in {"none", "early_warning", "completed"}

inSessionCase ==
  /\ Followed.notificationSettings.inSession
  /\ Outcome.before # "in_session"

Rank(type) ==
  CASE type = "early_warning" -> 1
    [] type = "approaching" -> 2
    [] type = "in_session" -> 3
    [] type = "completed" -> 4

\* C2: with all four flags enabled, the alerts of one appearance of the
\* followed case (found in successive snapshots, then absent) are in the order
\* early_warning, approaching, in_session, completed, none of them twice.
\* (The cycles of one behaviour span less than the in-session repeat
\* interval, so no repeated in_session is due.)
C2_MonotonicOrdering ==
  Followed.notificationSettings = DefaultSettings =>
    \A j \in 1..Len(trail), k \in 1..Len(trail) :
      j < k => Rank(trail[j]) < Rank(trail[k])

\* C7: when the decision has been run on a snapshot and is run again on the
\* same snapshot with the state the first run left, the second run emits no
\* alert and leaves lastNotificationSent and lastNotificationTime as they were.
C7_Idempotent ==
  (pc[1] = "done" /\ pc[2] = "done") =>
    /\ AlertsOf("w1") = {}
    /\ Outcome.sent = <<>>
    /\ StateUnchanged

\* Minutes between the stored lastNotificationTime and the current cycle.
ElapsedMinutes == (now - startWatchlists["w1"].lastNotificationTime) * TickMinutes

\* C11: with state in_session, inSession enabled, a device token and the case
\* still IN_SESSION, no alert is emitted while less than 5 minutes have
\* elapsed since lastNotificationTime, and once 5 minutes have elapsed the
\* cycle emits one in_session alert and refreshes lastNotificationTime.
C11_RepeatInterval ==
  ( /\ FoundInSession
    /\ Outcome.before = "in_session"
    /\ Followed.notificationSettings.inSession
    /\ HasToken(OwnerDevice) ) =>
      IF ElapsedMinutes < 5
      THEN AlertsOf("w1") = {}
      ELSE /\ Cardinality(Alerts("w1", "in_session")) = 1
           /\ Persisted => Followed.lastNotificationTime = now

\* The latest decision did not find the case in the snapshot.
NotFound == Outcome.made /\ Outcome.courtWithCase = NoRecord

completedCase ==
  /\ Outcome.before \in {"in_session", "approaching"}
  /\ Followed.notificationSettings.completed

C13_NoChangeWhenUnresolved ==
  ( /\ Outcome.made
    /\ Outcome.courtWithCase # NoRecord
    /\ Outcome.courtWithCase.caseStatus # "IN_SESSION"
    /\ \/ Outcome.courtWithCase.caseStatus = NULL
       \/ Outcome.position = NullNum ) =>
      /\ AlertsOf("w1") = {}
      /\ StateUnchanged

\* C14: no cycle writes lastNotificationSent back to none, and a decision
\* taken in state completed alerts under the conditions under which a
\* decision taken in state none does: early_warning inside the window,
\* approaching at position 1, in_session for a record in session, each with
\* its flag enabled (and a device token and, for the position alerts, a
\* non-zero queuePosition on the record).
C14_ReArm ==
  /\ \A w \in WatchIds :
        startWatchlists[w].lastNotificationSent # "none" =>
          watchlists[w].lastNotificationSent # "none"
  /\ Outcome.made /\ Outcome.before \in {"none", "completed"} =>
        /\ FoundPending =>
              /\ Alerted("early_warning") <=>
                    /\ 1 < Outcome.position
                    /\ Outcome.position <= earlyWarningThreshold
                    /\ Followed.notificationSettings.earlyWarning
                    /\ HasToken(OwnerDevice)
                    /\ CarriesPosition
              /\ Alerted("approaching") <=>
                    /\ Outcome.position = 1
                    /\ Followed.notificationSettings.approaching
                    /\ HasToken(OwnerDevice)
                    /\ CarriesPosition
        /\ FoundInSession =>
              (Alerted("in_session") <=>
                 (Followed.notificationSettings.inSession /\ HasToken(OwnerDevice)))

\* The entry was set to completed in the first cycle, and in the second its
\* case is back inside the window and the early warning is emitted.
C14_Witness ==
  /\ now = 2
  /\ Outcome.made
  /\ Outcome.before = "completed"
  /\ startWatchlists["w1"].lastNotificationTime = 1
  /\ FoundPending
  /\ Alerted("early_warning")
  /\ StateSetTo("early_warning")

\* ------------------------------------------------------- failures in a cycle

\* The cycle of invocation i is the one the logs describe and its loop over
\* the active entries is over.
LoopOver(i) == LatestCycle(i) /\ pc[i] \in {"history", "stats", "broadcast", "done"}

ActiveAtStart == { w \in WatchIds : startWatchlists[w].isActive }
TimesProcessed(w) == Cardinality({ k \in 1..Len(processed) : processed[k] = w })
DeliveryFailed(w) ==
  decided[w].made /\ \E k \in 1..Len(decided[w].logged) : ~decided[w].logged[k].success

C16_FailureIsolated ==
  \A i \in Ticks :
     (LatestCycle(i) /\ errors # {}) =>
        /\ pc[i] \in {"items", "deciding", "history", "stats", "broadcast", "done"}
        /\ \A v \in ActiveAtStart : TimesProcessed(v) <= 1
        /\ LoopOver(i) =>
              \A v \in ActiveAtStart : decided[v].made /\ TimesProcessed(v) = 1
        /\ pc[i] = "broadcast" =>
              /\ historyInserted = HistoryEntries(courtData[i])
              /\ statsUpdated = StatisticsWrites(courtData[i])
        /\ pc[i] = "done" => broadcasts = 1

C16_Witness ==
  /\ errors = {"w1"}
  /\ decided["w2"].made /\ ~decided["w2"].threw /\ decided["w2"].sent # <<>>
  /\ \E i \in Ticks : LatestCycle(i) /\ pc[i] = "broadcast" /\ historyInserted # <<>>

\* ------------------------------------------------------------- the resolver

IsPending(c) == c.caseStatus # "IN_SESSION" /\ c.caseStatus # "SITTING_OVER"
InCourt == \E j \in 1..Len(askedCourt) : askedCourt[j] = askedRecord

\* The records of the court that are pending and carry a serial number
\* smaller than that of the record asked about.
RankedAhead ==
  { j \in 1..Len(askedCourt) :
       /\ askedCourt[j] # askedRecord
       /\ IsPending(askedCourt[j])
       /\ askedCourt[j].queuePosition # NullNum
       /\ askedCourt[j].queuePosition < askedRecord.queuePosition }

\* C17: for a record with a serial number, the position is 1 + the number of
\* other pending records of the court with a smaller serial number, and every
\* evaluation on the same court gives the same position.
C17_Ranking ==
  askedRecord.queuePosition # NullNum =>
     \A k \in 1..Len(positions) : positions[k] = 1 + Cardinality(RankedAhead)

C17_Witness ==
  /\ askedCourt = <<Rec("1", "A", "RECESS", 10), Rec("1", "B", "RECESS", 12),
                    Rec("1", "C", "RECESS", 15)>>
  /\ askedRecord = Rec("1", "B", "RECESS", 12)
  /\ positions = <<2, 2>>

\* C18: the resolver returns null when the record asked about is not in the
\* court or is not pending, whatever its serial number.
C18_NullWhenNotPending ==
  (~InCourt \/ ~IsPending(askedRecord)) =>
     \A k \in 1..Len(positions) : positions[k] = NullNum

\* The pending records of the court with the case number asked about, and
\* the pending records in front of the first of them.
PendingWithCase ==
  { j \in 1..Len(askedCourt) :
       IsPending(askedCourt[j]) /\ askedCourt[j].caseNumber = askedRecord.caseNumber }
PendingBefore(first) ==
  { j \in 1..Len(askedCourt) : j < first /\ IsPending(askedCourt[j]) }
FirstPendingWithCase == CHOOSE j \in PendingWithCase : \A h \in PendingWithCase : j <= h

\* C19: for a record without a serial number, the position is 1 + the index
\* of its case number among the pending records of the court in feed order.
C19_OrdinalFallback ==
  (askedRecord.queuePosition = NullNum /\ PendingWithCase # {}) =>
     \A k \in 1..Len(positions) :
        positions[k] = 1 + Cardinality(PendingBefore(FirstPendingWithCase))

C19_Witness ==
  /\ askedRecord = Rec("1", "B", "RECESS", NullNum)
  /\ Len(askedCourt) = 3
  /\ askedCourt[1].caseStatus = "IN_SESSION"
  /\ askedCourt[2] = Rec("1", "A", "RECESS", NullNum)
  /\ askedCourt[3] = askedRecord
  /\ positions = <<2, 2>>

\* ----------------------------------------------------------- the aggregator

WithCaseNumber(courts) == { k \in 1..Len(courts) : courts[k].caseNumber # NULL }
HistoryOf(case) == { k \in 1..Len(historyInserted) : historyInserted[k].caseNumber = case }
StatisticsOf(case) == { k \in 1..Len(statsUpdated) : statsUpdated[k] = case }

\* C20: when processCaseUpdates has returned in a cycle whose fetch
\* succeeded, one history entry has been appended and the statistics written
\* for every record of the snapshot with a case number, with any number of
\* active entries, none included.
C20_EveryRecordAggregated ==
  \A i \in Ticks :
     (LatestCycle(i) /\ pc[i] = "broadcast") =>
        /\ Len(historyInserted) = Cardinality(WithCaseNumber(courtData[i]))
        /\ \A k \in WithCaseNumber(courtData[i]) :
              /\ HistoryOf(courtData[i][k].caseNumber) # {}
              /\ StatisticsOf(courtData[i][k].caseNumber) # {}

\* The same with at least one active entry.
AggregatedWhenWatched ==
  \A i \in Ticks :
     (LatestCycle(i) /\ pc[i] = "broadcast" /\ ActiveAtStart # {}) =>
        /\ Len(historyInserted) = Cardinality(WithCaseNumber(courtData[i]))
        /\ \A k \in WithCaseNumber(courtData[i]) :
              /\ HistoryOf(courtData[i][k].caseNumber) # {}
              /\ StatisticsOf(courtData[i][k].caseNumber) # {}

\* The entries appended in the cycle carry the scrapedAt of its snapshot, so
\* two of them have the same natural key when they agree on case and court.
SameNaturalKey(e, f) == e.caseNumber = f.caseNumber /\ e.courtNumber = f.courtNumber

\* C21: no two stored history entries have the same natural key
\* (caseNumber, court, scrapedAt): an entry whose key is already stored is
\* not appended again.
C21_HistoryKeyed ==
  \A j, k \in 1..Len(historyInserted) :
     j # k => ~SameNaturalKey(historyInserted[j], historyInserted[k])

\* The observations of case c, in order, and the values seen in them.
RECURSIVE ObservedOf(_, _)
ObservedOf(obs, c) ==
  IF obs = <<>> THEN <<>>
  ELSE IF Head(obs).caseNumber = c THEN <<Head(obs)>> \o ObservedOf(Tail(obs), c)
       ELSE ObservedOf(Tail(obs), c)

Elements(arr) == { arr[k] : k \in 1..Len(arr) }
DuplicateFree(arr) == \A j, k \in 1..Len(arr) : j # k => arr[j] # arr[k]
LastOf(arr, n) == IF Len(arr) > n THEN SubSeq(arr, Len(arr) - n + 1, Len(arr)) ELSE arr

\* C22: a case observed n times has totalAppearances n (one per
\* observation), courts and judges are the duplicate-free sets of the courts
\* and judges seen, and statusHistory holds the entries of the most recent
\* observations, at most statusHistoryLimit of them, in the order appended.
C22_StatisticsUpdate ==
  \A c \in StatCases :
     LET seen == ObservedOf(observations, c)
         stats == caseStatistics[c]
     IN IF seen = <<>> THEN stats = NoStatistics
        ELSE /\ stats.totalAppearances = Len(seen)
             /\ DuplicateFree(stats.courts)
             /\ Elements(stats.courts) = { seen[k].courtNumber : k \in 1..Len(seen) }
             /\ DuplicateFree(stats.judges)
             /\ Elements(stats.judges) = { seen[k].judgeName : k \in 1..Len(seen) }
             /\ Len(stats.statusHistory) <= statusHistoryLimit
             /\ stats.statusHistory =
                  LastOf([k \in 1..Len(seen) |-> StatusEntry(seen[k])], statusHistoryLimit)

C22_Witness ==
  /\ Len(ObservedOf(observations, "A")) = 3
  /\ observations[1] # observations[3]
  /\ caseStatistics["A"].totalAppearances = 3
  /\ Len(caseStatistics["A"].statusHistory) = statusHistoryLimit
  /\ caseStatistics["A"].statusHistory[statusHistoryLimit] = StatusEntry(observations[Len(observations)])
  /\ Len(caseStatistics["A"].courts) = 2

\* An entry follows case c when its identifier is the case number or the
\* case number scoped to a court.
Watches(w, c) ==
  LET parsed == parseCaseIdentifier(watchlists[w].caseNumber)
  IN parsed.type = "caseNumber" /\ parsed.caseNumber = <<c>>

ActiveWatchersOf(c) == { w \in WatchIds : watchlists[w].isActive /\ Watches(w, c) }

\* C23: after a record with case number c has been processed, the stored
\* watchCount of c is the number of active entries that follow c, scoped
\* identifiers included.
C23_WatchCount ==
  \A c \in StatCases :
     ObservedOf(observations, c) # <<>> =>
        caseStatistics[c].watchCount = Cardinality(ActiveWatchersOf(c))

\* The same for entries that name the case number alone.
WatchCountOfPlain ==
  (\A w \in WatchIds : Len(watchlists[w].caseNumber) = 1) => C23_WatchCount

\* --------------------------------------------------- the cycle as a whole

Aggregated(courts) ==
  /\ Len(historyInserted) = Cardinality(WithCaseNumber(courts))
  /\ \A k \in WithCaseNumber(courts) :
        /\ HistoryOf(courts[k].caseNumber) # {}
        /\ StatisticsOf(courts[k].caseNumber) # {}

\* C24: the snapshot is broadcast once in a cycle whose fetch succeeded and
\* never in one whose fetch failed, and when it is handed over every active
\* entry has been decided and history and statistics are written for the
\* snapshot, whether or not a decision threw.
C24_BroadcastAfterAll ==
  \A i \in Ticks :
     LatestCycle(i) =>
        /\ pc[i] \in (Live \cup {"failed"}) => broadcasts = 0
        /\ pc[i] = "done" => broadcasts = 1
        /\ pc[i] = "broadcast" =>
              /\ \A v \in ActiveAtStart : decided[v].made /\ TimesProcessed(v) = 1
              /\ Aggregated(courtData[i])

\* The same for cycles that read at least one active entry.
BroadcastAfterAllWhenWatched ==
  \A i \in Ticks :
     (LatestCycle(i) /\ ActiveAtStart # {}) =>
        /\ pc[i] \in (Live \cup {"failed"}) => broadcasts = 0
        /\ pc[i] = "done" => broadcasts = 1
        /\ pc[i] = "broadcast" =>
              /\ \A v \in ActiveAtStart : decided[v].made /\ TimesProcessed(v) = 1
              /\ Aggregated(courtData[i])

\* The fields of an entry the routes own.
Structural(doc) ==
  <<doc.id, doc.deviceId, doc.caseNumber, doc.notificationSettings, doc.isActive>>

\* C26: a step of the cycle leaves id, deviceId, caseNumber,
\* notificationSettings and isActive of every stored entry as they are, so a
\* value a route wrote while the cycle held its copy of the entry is still
\* stored after the cycle's save.
C26_StructuralFieldsKept ==
  [][externalWrites' = externalWrites =>
        \A w \in WatchIds : Structural(watchlists'[w]) = Structural(watchlists[w])]_vars

C26_Witness ==
  /\ externalWrites = <<[id |-> "w1", held |-> TRUE]>>
  /\ decided["w1"].made /\ decided["w1"].saved
  /\ watchlists["w1"].lastNotificationSent # startWatchlists["w1"].lastNotificationSent
  /\ Structural(watchlists["w1"]) # Structural(startWatchlists["w1"])

\* The cycles in which a decision on entry w is in flight.
InFlight(w) == { i \in Ticks : pc[i] = "deciding" /\ Head(queue[i]).id = w }

\* C27: the entries decided in a cycle are those that were active when the
\* cycle read the collection, each once; one decision is in flight at a
\* time, and never two on one entry.
C27_OneDecisionAtATime ==
  /\ Cardinality({ i \in Ticks : pc[i] = "deciding" }) <= 1
  /\ \A w \in WatchIds :
        /\ Cardinality(InFlight(w)) <= 1
        /\ TimesProcessed(w) <= 1
        /\ TimesProcessed(w) = 1 => startWatchlists[w].isActive
        /\ InFlight(w) # {} => startWatchlists[w].isActive /\ TimesProcessed(w) = 0
  /\ \A i \in Ticks :
        LoopOver(i) => \A w \in WatchIds :
                          TimesProcessed(w) = (IF startWatchlists[w].isActive THEN 1 ELSE 0)

C27_Witness ==
  /\ InFlight("w2") # {}
  /\ processed = <<"w1">>
  /\ firedWhileRunning # {}

\* C29: isScraperRunning is true exactly while a cycle is executing,
\* scrapeCount is the number of cycles started, and lastScrapeTime changes
\* only in the step that completes a cycle.
C29_SchedulerStatus ==
  /\ [](/\ isScraperRunning <=> Executing # {}
        /\ scrapeCount = Cardinality({ i \in Ticks : pc[i] \in Live \cup {"done", "failed"} })
        /\ lastScrapeTime # NullNum => \E i \in Ticks : pc[i] = "done")
  /\ [][lastScrapeTime' # lastScrapeTime =>
          \E i \in Ticks : pc[i] = "broadcast" /\ pc'[i] = "done" /\ lastScrapeTime' = now]_vars

C29_Witness ==
  /\ ~isScraperRunning
  /\ scrapeCount = 2
  /\ \E i, j, k \in Ticks :
        /\ i < k /\ k < j
        /\ pc[i] = "done" /\ pc[k] = "skipped" /\ pc[j] = "failed"
        /\ lastScrapeTime \in i..k

\* ---------------------------------------------------------------- the lookup

\* The form of the identifier asked about: COURT:<court>:<rest>, the prefix
\* in any letter case and the court in digits.
IsScoped ==
  /\ Len(askedIdentifier) = 3
  /\ IsCourtPrefix(askedIdentifier[1])
  /\ askedIdentifier[2] \in DigitStrings
ScopedByPosition == IsScoped /\ askedIdentifier[3] \in DigitStrings

\* The records of the snapshot the identifier stands for.
Candidates ==
  { k \in 1..Len(askedCourt) :
      IF ScopedByPosition
      THEN /\ askedCourt[k].courtNumber = askedIdentifier[2]
           /\ askedCourt[k].queuePosition = ParseInt(askedIdentifier[3])
      ELSE IF IsScoped
      THEN /\ askedCourt[k].courtNumber = askedIdentifier[2]
           /\ askedCourt[k].caseNumber = askedIdentifier[3]
      ELSE Len(askedIdentifier) = 1 /\ askedCourt[k].caseNumber = askedIdentifier[1] }

FirstCandidate == askedCourt[CHOOSE k \in Candidates : \A h \in Candidates : k <= h]

\* C28: the lookup returns the first record in snapshot order that the
\* identifier stands for (court and serial number, court and case number, or
\* case number in any court) and nothing when there is none; the record
\* returned for a scoped identifier is of the court it names.
C28_IdentifierResolution ==
  \A k \in 1..Len(matched) :
     /\ matched[k] = (IF Candidates = {} THEN NoRecord ELSE FirstCandidate)
     /\ (IsScoped /\ matched[k] # NoRecord) => matched[k].courtNumber = askedIdentifier[2]

C28_Witness ==
  /\ askedIdentifier = <<"COURT", "2", "03">>
  /\ askedCourt = <<Rec("1", "A", "IN_SESSION", 3), Rec("2", "A", "RECESS", 3)>>
  /\ matched = <<Rec("2", "A", "RECESS", 3), Rec("2", "A", "RECESS", 3)>>

\* ------------------------------------------------------------ the normalizer

WellFormed == { k \in 1..Len(rawFeed) : ~rawFeed[k].isNull }
WithCourtCode == { k \in WellFormed : rawFeed[k].courtcode # "" }
Malformed == { k \in 1..Len(rawFeed) : rawFeed[k].isNull }

\* C25: a feed response with a malformed row still gives a snapshot, with a
\* record for every well-formed row that has a court code.
C25_MalformedRowSkipped ==
  scraped.called =>
     /\ ~scraped.threw
     /\ Len(scraped.courts) = Cardinality(WithCourtCode)
     /\ \A k \in WithCourtCode :
           \E j \in 1..Len(scraped.courts) : scraped.courts[j].id = rawFeed[k].courtcode

\* The same for responses in which every row is well-formed.
SnapshotOfWellFormed == Malformed = {} => C25_MalformedRowSkipped

\* The caseinfo of a row is empty or the placeholder.
UnknownInfo(row) == cleanText(row.caseinfo) \in {<<>>, <<"-">>}

\* C30: in every record of a snapshot the case number is non-null exactly
\* when the status is IN_SESSION or RECESS; a SITTING_OVER record has none,
\* and a row with empty or placeholder case info gives a record with neither
\* status nor case number.
C30_CaseNumberIffStatus ==
  (scraped.called /\ ~scraped.threw) =>
     /\ \A j \in 1..Len(scraped.courts) :
           LET c == scraped.courts[j]
           IN /\ ~c.caseNumber.null <=> c.caseStatus \in {"IN_SESSION", "RECESS"}
              /\ c.caseStatus = "SITTING_OVER" => c.caseNumber = NoText
              /\ c.caseStatus \in {"IN_SESSION", "RECESS", "SITTING_OVER", NULL}
     /\ \A k \in WithCourtCode :
           UnknownInfo(rawFeed[k]) =>
              /\ \E j \in 1..Len(scraped.courts) :
                    /\ scraped.courts[j].id = rawFeed[k].courtcode
                    /\ scraped.courts[j].caseStatus = NULL
              /\ classify(cleanText(rawFeed[k].caseinfo)).caseNumber = NoText

C30_Witness ==
  /\ scraped.called /\ ~scraped.threw
  /\ Len(scraped.courts) = 2
  /\ scraped.courts[1].id = "c2"
  /\ scraped.courts[1].caseStatus = "SITTING_OVER" /\ scraped.courts[1].caseNumber = NoText
  /\ scraped.courts[2].caseStatus = "RECESS" /\ scraped.courts[2].caseNumber = Text(<<"A">>)
  /\ rawFeed[1].courtcode = "c1"

\* The reading of a case info text by the rules in their order; the text is
\* taken with its white space cleaned, as the feed's other fields are.
NotMarker(piece) == piece # "(RECESS)"
ExpectedReading(info) ==
  LET text == cleanText(info)
  IN IF Includes(text, "COURT SITTING OVER")
     THEN [caseStatus |-> "SITTING_OVER", caseNumber |-> NoText]
     ELSE IF Includes(text, "(RECESS)")
     THEN [caseStatus |-> "RECESS", caseNumber |-> Text(Trim(SelectSeq(text, NotMarker)))]
     ELSE IF text # <<>> /\ text # <<"-">>
     THEN [caseStatus |-> "IN_SESSION", caseNumber |-> Text(text)]
     ELSE [caseStatus |-> NULL, caseNumber |-> NoText]

Reads(c, row) ==
  /\ c.id = row.courtcode
  /\ c.caseStatus = ExpectedReading(row.caseinfo).caseStatus
  /\ c.caseNumber = ExpectedReading(row.caseinfo).caseNumber

IsNumeric(courtNumber) == courtNumber \in DigitStrings

\* C32: in a snapshot the records with a numeric court number stand in
\* ascending order of that number, 0 and numbers from 10000 included, and
\* every record with a non-numeric court number stands after all of them.
C32_OrderedByCourtNumber ==
  (scraped.called /\ ~scraped.threw) =>
     \A j, k \in 1..Len(scraped.courts) :
        j < k =>
          LET a == scraped.courts[j].courtNumber
              b == scraped.courts[k].courtNumber
          IN /\ (IsNumeric(a) /\ IsNumeric(b)) => ParseInt(a) <= ParseInt(b)
             /\ ~IsNumeric(a) => ~IsNumeric(b)

\* The same for court numbers from 1 to 9998.
OrderedInOrdinaryRange ==
  (\A k \in WithCourtCode : rawFeed[k].courtcode \in {"c1", "c2", "c4"})
     => C32_OrderedByCourtNumber

\* C33: while the completed flag of the followed entry is disabled and its
\* state is in_session, no step changes lastNotificationSent or
\* lastNotificationTime and no step emits an alert, whatever the snapshot of
\* the cycle holds (case absent, pending at any position, in session).
C33_InSessionAbsorbing ==
  [][(/\ Followed.lastNotificationSent = "in_session"
      /\ ~Followed.notificationSettings.completed)
     => /\ watchlists'["w1"].lastNotificationSent = "in_session"
        /\ watchlists'["w1"].lastNotificationTime = Followed.lastNotificationTime
        /\ sent' = <<>>]_vars

\* The second of two cycles finds the case of an in_session entry pending in
\* first position, with the completed flag off, the approaching flag on and
\* an active device with a token: nothing is emitted, the state is kept.
C33_Witness ==
  /\ pc[1] = "done" /\ pc[2] = "done"
  /\ ~Followed.notificationSettings.completed
  /\ Followed.notificationSettings.approaching
  /\ Followed.lastNotificationSent = "in_session"
  /\ HasToken(OwnerDevice)
  /\ Outcome.before = "in_session"
  /\ FoundPending
  /\ Outcome.position = 1
  /\ sent = <<>>

\* C34: an entry in early_warning whose case is not in the snapshot of a
\* cycle stays in early_warning, and among the alerts of the followed entry
\* since its latest completed alert none of early_warning, approaching and
\* in_session occurs twice, whether or not the case left the feed between.
C34_StateSurvivesAbsence ==
  /\ [](\A j \in 1..Len(sinceCompleted), k \in 1..Len(sinceCompleted) :
          j < k => sinceCompleted[j] # sinceCompleted[k])
  /\ [][(/\ Followed.lastNotificationSent = "early_warning"
          /\ Outcome'.made
          /\ Outcome'.courtWithCase = NoRecord)
         => watchlists'["w1"].lastNotificationSent = "early_warning"]_vars

\* The device lookup for the owner of the followed entry gives no document or
\* a document without a token.
NoDeliveryToken == OwnerDevice = NoDevice \/ OwnerDevice.fcmToken = NULL

\* A step that takes a cycle from the resolved scrape to its end.
CycleStep == \E i \in Ticks : pc[i] = "scrape" /\ pc'[i] = "done"

\* What a finished cycle shows for the followed entry, by the owner's device.
DeviceDecides ==
  IF NoDeliveryToken
  THEN AlertsOf("w1") = {} /\ StateUnchanged
  ELSE /\ NotFound => (Alerted("completed") <=> completedCase)
       /\ FoundInSession => (Alerted("in_session") <=> inSessionCase)
       /\ (FoundPending /\ CarriesPosition) =>
             /\ Alerted("early_warning") <=> earlyWarningCase
             /\ Alerted("approaching") <=> approachingCase

\* C35: a cycle whose device lookup gives no active device or no token emits
\* no alert for the entry and leaves lastNotificationSent and
\* lastNotificationTime as they were, whether the case is absent, in session
\* or pending; and a cycle whose lookup gives a token emits the alert that the
\* state left by the earlier cycles and the snapshot make due.
C35_NoTokenNoAlert ==
  [][CycleStep => DeviceDecides']_vars

\* The first cycle found the case in session and had no token; the device
\* registered after it; the second cycle, on the same snapshot, emitted the
\* in_session alert from the state the first had left.
C35_Witness ==
  /\ pc[1] = "done" /\ pc[2] = "done"
  /\ devices["d1"] = RegisteredDevice(1)
  /\ FoundInSession
  /\ Outcome.before = "none"
  /\ Alerted("in_session")
  /\ StateSetTo("in_session")

\* The record the latest decision found is not in session and carries the
\* queuePosition null or 0.
FoundUnranked ==
  /\ Outcome.made
  /\ Outcome.courtWithCase # NoRecord
  /\ Outcome.courtWithCase.caseStatus # "IN_SESSION"
  /\ Outcome.courtWithCase.queuePosition \in {NullNum, 0}

\* C36: when the found record is not IN_SESSION and its queuePosition is null
\* or 0, the cycle emits no early_warning or approaching alert (no alert at
\* all) and leaves the state as it was, also when the resolver would give the
\* record the first position of its court.
C36_PositionBranchNeedsSerial ==
  FoundUnranked =>
    /\ ~Alerted("early_warning")
    /\ ~Alerted("approaching")
    /\ AlertsOf("w1") = {}
    /\ StateUnchanged

\* A record with queuePosition 0 that the resolver would rank first, for an
\* entry in state none with the approaching flag and a device token: nothing
\* is emitted.
C36_Witness ==
  /\ FoundUnranked
  /\ Outcome.courtWithCase.queuePosition = 0
  /\ Outcome.position = 1
  /\ Outcome.before = "none"
  /\ Followed.notificationSettings.approaching
  /\ HasToken(OwnerDevice)
  /\ AlertsOf("w1") = {}
  /\ Followed.lastNotificationSent = "none"

\* The stored lastNotificationSent, and the stored lastNotificationTime, of
\* the followed entry differ from what the cycle started with.
SentWritten ==
  Followed.lastNotificationSent # startWatchlists["w1"].lastNotificationSent
TimeWritten ==
  Followed.lastNotificationTime # startWatchlists["w1"].lastNotificationTime

\* C37: in a cycle lastNotificationSent is written only after an alert has
\* been handed to sendCaseAlert by that decision, to the type of that alert
\* (the last one handed), and lastNotificationTime is written exactly when
\* lastNotificationSent is; a decision that hands over no alert assigns
\* nothing.
C37_StateFollowsAlert ==
  Outcome.made =>
    /\ SentWritten <=> TimeWritten
    /\ SentWritten =>
          /\ Outcome.sent # <<>>
          /\ Outcome.sent[Len(Outcome.sent)] = Followed.lastNotificationSent
          /\ Alerted(Followed.lastNotificationSent)
          /\ Followed.lastNotificationTime = now
    /\ Outcome.writes <= Len(Outcome.sent)
    /\ Outcome.sent = <<>> => StateUnchanged

\* In the second of two cycles an approaching entry whose case is called is
\* alerted and both fields are written, the time moving from the first
\* cycle's to the second's.
C37_Witness ==
  /\ now = 2
  /\ Outcome.made
  /\ Outcome.before = "approaching"
  /\ startWatchlists["w1"].lastNotificationTime = 1
  /\ Outcome.sent = <<"in_session">>
  /\ SentWritten
  /\ TimeWritten
  /\ Followed.lastNotificationSent = "in_session"
  /\ Followed.lastNotificationTime = 2

\* The cycle of the latest tick has run to its end.
CycleOver ==
  /\ now \in Ticks
  /\ pc[now] = "done"
  /\ ~isScraperRunning
  /\ lastScrapeTime = now
  /\ broadcasts = 1

\* C38: when the audit-log write or the save of a decision rejects, an alert
\* has been handed to the provider, the stored state of the entry is what
\* the cycle started with, the error stays inside the loop iteration (the
\* entry is recorded as failed and the cycle runs to its end), and the next
\* cycle, given the same snapshot, hands over the same alert again.
C38_RejectedWriteRepeatsAlert ==
  /\ (Outcome.made /\ Outcome.threw) =>
        /\ Len(Outcome.sent) = 1
        /\ StateUnchanged
        /\ errors = {"w1"}
        /\ CycleOver
  /\ (pc[1] = "done" /\ pc[2] = "done") =>
        \A k \in 1..Len(rejected) :
          rejected[k].cycle = 1 =>
            /\ Outcome.sent = rejected[k].sent
            /\ Outcome.before = startWatchlists["w1"].lastNotificationSent
            /\ Outcome.threw \/ StateSetTo(Outcome.sent[1])

\* The save of the first cycle's approaching alert was rejected; the second
\* cycle, on the same snapshot, emitted approaching again and stored it.
C38_Witness ==
  /\ pc[1] = "done" /\ pc[2] = "done"
  /\ rejected = << [cycle |-> 1, sent |-> <<"approaching">>] >>
  /\ Outcome.before = "none"
  /\ Outcome.sent = <<"approaching">>
  /\ trail = <<"approaching", "approaching">>
  /\ StateSetTo("approaching")

\* C39: every invocation that passed the guard reaches the end of the
\* callback with the running flag cleared, whichever of its awaited calls
\* reject; the flag is set only while an invocation is executing, so no
\* error leaves the callback with the flag set; and a tick that fires while
\* the flag is clear starts a new cycle.
C39_NoPermanentLockout ==
  /\ \A i \in Ticks :
        (pc[i] \in Live) ~> (pc[i] \in {"done", "failed"} /\ ~isScraperRunning)
  /\ [](isScraperRunning <=> Executing # {})
  /\ [][(~isScraperRunning /\ now' # now)
         => (isScraperRunning' /\ pc'[now'] = "scrape" /\ scrapeCount' = scrapeCount + 1)]_vars

\* The first cycle failed at the fetch, the second ran to its end with a
\* decision that threw, and the flag is clear for the next tick.
C39_Witness ==
  /\ pc[1] = "failed"
  /\ pc[2] = "done"
  /\ errors # {}
  /\ scrapeCount = 2
  /\ ~isScraperRunning

====
